---- MODULE Spec2Model ----
(***************************************************************************)
(* documate: the wiki orchestrator (plan -> hierarchy -> manifest -> pages *)
(* -> wiki index) and the indexer it shares with code ingestion.           *)
(*                                                                         *)
(* Python objects are modelled as a heap: a Page object is named by the    *)
(* key under which pages_map holds it (its file), and a list of Page       *)
(* objects is a sequence of such keys, so that one object held by two      *)
(* lists, or by its own list, is representable.                            *)
(***************************************************************************)
EXTENDS Integers, Sequences, FiniteSets, TLC

VARIABLES pc, state, stack, trace, fs, collections, ret

vars == <<pc, state, stack, trace, fs, collections, ret>>

-----------------------------------------------------------------------------
(* Bounds of the model *)

\* longest flat page list drawn for the hierarchy builder alone
MaxPages == 3

\* longest flat page list the architect returns in a pipeline run
MaxPlanPages == 2

-----------------------------------------------------------------------------
(* Values *)

\* Python's None, for Optional[str] fields
None == "None"

\* bool(x) of an Optional[str]
Truthy(x) == x # None /\ x # ""

\* filenames the architect may give a page
Files == {"01_Intro.md", "02_A.md", "02_01_B.md"}

\* a filename that no page of the plan carries
GhostFile == "09_Missing.md"

\* what parent_file may hold
Parents == {None, GhostFile} \cup Files

\* titles, one per position of the flat list, so that a Page shows which
\* FlatPage it was built from
Titles == <<"T1", "T2", "T3", "T4", "T5", "T6">>

WikiTitle == "Wiki"

\* FlatPage lists of at most n pages over files F and parents P
FlatPageLists(n, F, P) ==
    UNION { { [i \in 1..k |-> [title |-> Titles[i],
                               file |-> fp[i][1],
                               parent_file |-> fp[i][2]]]
              : fp \in [1..k -> F \X P] }
            : k \in 0..n }

\* FlatWikiStructure values
FlatWikiStructures(n, F, P) ==
    { [title |-> WikiTitle, pages |-> ps] : ps \in FlatPageLists(n, F, P) }

EmptyFlat == [title |-> "", pages |-> <<>>]

EmptyNested == [title |-> "", pages |-> <<>>, heap |-> <<>>]

\* the filenames and parent values of the plans drawn in a pipeline run
PlanFiles == {"01_Intro.md", "02_A.md"}

PlanParents == {None, GhostFile} \cup PlanFiles

\* repository names generate is called with: one is ingested, one is not
ClonedRepo == "demo"

RepoNames == {ClonedRepo, "unknown"}

-----------------------------------------------------------------------------
(* The file system and the vector store                                    *)
(*                                                                         *)
(* fs maps a path (a sequence of components) to what is there.  A file     *)
(* written by the generate call under way, or by the last one, holds what  *)
(* was written (gen = "cur"); when a new generate call starts, the model   *)
(* forgets what the files of earlier calls say and keeps only that they    *)
(* are there and come from an earlier call (gen = "old").  The bytes on    *)
(* disk are not touched by that.                                           *)
(***************************************************************************)

Dir == [kind |-> "dir"]

\* os.path.exists
Exists(f, p) == p \in DOMAIN f

Prefixes(p) == {SubSeq(p, 1, k) : k \in 1..Len(p)}

\* os.makedirs(p, exist_ok=True)
MakeDirs(f, p) ==
    [q \in DOMAIN f \cup Prefixes(p) |-> IF q \in DOMAIN f THEN f[q] ELSE Dir]

\* with open(p, "w") as h: h.write(c)   -- creates or replaces the file
WriteFile(f, p, c) ==
    [q \in DOMAIN f \cup {p} |-> IF q = p THEN c ELSE f[q]]

\* os.path.join(base, name)
PathJoin(base, name) == Append(base, name)

\* a file of an earlier generate call
Stale(k) == [kind |-> k, gen |-> "old"]

Age(c) == IF c.kind \in {"md", "json"} THEN Stale(c.kind) ELSE c

\* a chunk added by an earlier generate call
AgeChunk(ch) == [ch EXCEPT !.page_content = Age(@), !.gen = "old"]

\* no call has returned yet
NoCall == [op |-> "none", outcome |-> "none", value |-> None]

-----------------------------------------------------------------------------
(* Hierarchy builder: OrchestratorNodes.reconstruct_hierarchy *)

\* index of the last FlatPage carrying file f: a dict comprehension keeps
\* the value of the last occurrence of a key
LastIndexOf(pages, f) ==
    CHOOSE i \in 1..Len(pages) :
        /\ pages[i].file = f
        /\ \A j \in (i+1)..Len(pages) : pages[j].file # f

\* pages_map = {page.file: Page(**page.dict(), pages=[]) for page in ...}
PagesMap(pages) ==
    [f \in {pages[i].file : i \in 1..Len(pages)} |->
        [title |-> pages[LastIndexOf(pages, f)].title,
         file  |-> f,
         pages |-> <<>>]]

\* a list.insert(0, x) in place of list.append(x)
ListAppend_Prepend(list, x) == <<x>> \o list

\* list.append
ListAppend(list, x) == Append(list, x)

\* the orphan branch left out: a page whose parent is not found is dropped
HierarchyStep_DropOrphan(acc, page_model) ==
    IF Truthy(page_model.parent_file)
    THEN IF page_model.parent_file \in DOMAIN acc.heap
         THEN [acc EXCEPT !.heap[page_model.parent_file].pages =
                              Append(@, page_model.file)]
         ELSE acc
    ELSE [acc EXCEPT !.top = Append(@, page_model.file)]

\* a sub-page attached to its parent and listed at the top level as well
HierarchyStep_AlsoTop(acc, page_model) ==
    IF Truthy(page_model.parent_file) /\ page_model.parent_file \in DOMAIN acc.heap
    THEN [acc EXCEPT !.heap[page_model.parent_file].pages =
                         Append(@, page_model.file),
                     !.top = Append(@, page_model.file)]
    ELSE [acc EXCEPT !.top = Append(@, page_model.file)]

\* every Page built with one and the same pages list: what is appended to
\* a parent's list is in the list of every page
HierarchyStep_SharedList(acc, page_model) ==
    IF Truthy(page_model.parent_file) /\ page_model.parent_file \in DOMAIN acc.heap
    THEN [acc EXCEPT !.heap = [f \in DOMAIN acc.heap |->
                                  [acc.heap[f] EXCEPT !.pages =
                                      Append(@, page_model.file)]]]
    ELSE [acc EXCEPT !.top = Append(@, page_model.file)]

\* one iteration of the for loop over flat_structure.pages; acc carries
\* pages_map (heap) and nested_pages (top)
HierarchyStep(acc, page_model) ==
    IF Truthy(page_model.parent_file)
    THEN IF page_model.parent_file \in DOMAIN acc.heap
         THEN [acc EXCEPT !.heap[page_model.parent_file].pages =
                              ListAppend(@, page_model.file)]
         ELSE [acc EXCEPT !.top = ListAppend(@, page_model.file)]
    ELSE [acc EXCEPT !.top = ListAppend(@, page_model.file)]

RECURSIVE HierarchyLoop(_, _, _)
HierarchyLoop(acc, pages, i) ==
    IF i > Len(pages) THEN acc
    ELSE HierarchyLoop(HierarchyStep(acc, pages[i]), pages, i + 1)

\* the WikiStructure reconstruct_hierarchy returns, with the Page objects
\* it refers to
ReconstructHierarchy(flat) ==
    LET acc == HierarchyLoop([heap |-> PagesMap(flat.pages), top |-> <<>>],
                             flat.pages, 1)
    IN  [title |-> flat.title, pages |-> acc.top, heap |-> acc.heap]

-----------------------------------------------------------------------------
(* Walking a nested structure *)

SeqToSet(s) == {s[i] : i \in 1..Len(s)}

\* Page objects one step below the objects of S
ChildrenOf(heap, S) == UNION {SeqToSet(heap[f].pages) : f \in S}

RECURSIVE ReachFrom(_, _)
ReachFrom(heap, S) ==
    LET T == S \cup ChildrenOf(heap, S)
    IN  IF T = S THEN S ELSE ReachFrom(heap, T)

\* Page objects reachable from the top-level list
Reachable(nested) == ReachFrom(nested.heap, SeqToSet(nested.pages))

\* the proper descendants of Page object f
Descendants(heap, f) == ReachFrom(heap, SeqToSet(heap[f].pages))

\* some Page object reachable from the top level is its own descendant
CyclicFromTop(nested) ==
    \E f \in Reachable(nested) : f \in Descendants(nested.heap, f)

\* pre-order traversal of the Page objects under a list of refs (finite
\* only when no cycle is reachable from the list)
RECURSIVE PreOrder(_, _)
PreOrder(heap, refs) ==
    IF refs = <<>> THEN <<>>
    ELSE <<Head(refs)>> \o PreOrder(heap, heap[Head(refs)].pages)
                        \o PreOrder(heap, Tail(refs))

-----------------------------------------------------------------------------
(* Content filter and indexer: AnalyticsAgent *)

\* self.filters, as loaded from the filters file
Filters ==
    [allowed_extensions |-> {".py", ".md"},
     excluded_patterns  |-> {<<"*", "node_modules", "*">>}]

\* the suffix a filename of the model ends with
NameExt(name) ==
    CASE name \in Files \cup {GhostFile, "readme.md"} -> ".md"
      [] name \in {"x.py", "y.py"} -> ".py"
      [] name = "structure.json" -> ".json"
      [] name = "img.png" -> ".png"
      [] OTHER -> ""

\* filename.endswith(ext)
EndsWith(name, ext) == NameExt(name) = ext

\* fnmatch.fnmatch(path, pattern), both split at the separator: a "*"
\* stands for any run of characters, separators included
RECURSIVE FnMatch(_, _)
FnMatch(path, pat) ==
    IF pat = <<>> THEN path = <<>>
    ELSE IF Head(pat) = "*"
         THEN \E k \in 1..Len(path) :
                  FnMatch(SubSeq(path, k + 1, Len(path)), Tail(pat))
         ELSE /\ path # <<>>
              /\ Head(path) = Head(pat)
              /\ FnMatch(Tail(path), Tail(pat))

\* p lies below directory d
Under(p, d) == Len(p) > Len(d) /\ SubSeq(p, 1, Len(d)) = d

\* a filter that looks at the extension only
FilterFiles_NoExclusion(f, source_path, allowed_extensions) ==
    { p \in DOMAIN f :
        /\ Under(p, source_path)
        /\ f[p].kind # "dir"
        /\ \E ext \in allowed_extensions : EndsWith(p[Len(p)], ext) }

\* _filter_files: the files below source_path with an allowed extension
\* and matching no excluded pattern
FilterFiles(f, source_path, allowed_extensions) ==
    { p \in DOMAIN f :
        /\ Under(p, source_path)
        /\ f[p].kind # "dir"
        /\ ~ \E pattern \in Filters.excluded_patterns :
               FnMatch(p, source_path \o pattern)
        /\ \E ext \in allowed_extensions : EndsWith(p[Len(p)], ext) }

\* the chunk of a loaded file (one per file: the texts of the model are
\* short), with its provenance; gen tells the entries this call adds from
\* those of earlier calls (Chroma gives every added text a new id)
Chunk(f, p) == [source |-> p, page_content |-> f[p], gen |-> "cur"]

\* ChromaStore.from_documents: Chroma opens the collection persisted at
\* persist_directory, creating it if it is not there, and adds the documents
FromDocuments(store, documents, persist_directory) ==
    [d \in DOMAIN store \cup {persist_directory} |->
        IF d = persist_directory
        THEN (IF d \in DOMAIN store THEN store[d] ELSE {}) \cup documents
        ELSE store[d]]

\* a loop without the try: one file that does not load ends the call
ProcessAndIndexFiles_Fatal(f, store, file_paths, persist_directory, loadable) ==
    LET docs == file_paths \cap loadable
        split_docs == {Chunk(f, p) : p \in docs}
    IN  IF file_paths = {} \/ docs # file_paths
        THEN [value |-> "False", store |-> store, docs |-> docs, split_docs |-> {}]
        ELSE [value |-> "True",
              store |-> FromDocuments(store, split_docs, persist_directory),
              docs |-> docs, split_docs |-> split_docs]

\* _process_and_index_files; loadable are the files TextLoader can read and
\* that split into at least one chunk, so docs are the files loaded (the
\* others are skipped with a warning).  Gives the value returned and the
\* vector store afterwards.
ProcessAndIndexFiles(f, store, file_paths, persist_directory, loadable) ==
    LET docs == file_paths \cap loadable
        split_docs == {Chunk(f, p) : p \in docs}
    IN  IF file_paths = {}
        THEN [value |-> "False", store |-> store, docs |-> {}, split_docs |-> {}]
        ELSE IF split_docs = {}
        THEN [value |-> "False", store |-> store, docs |-> docs, split_docs |-> {}]
        ELSE [value |-> "True",
              store |-> FromDocuments(store, split_docs, persist_directory),
              docs |-> docs, split_docs |-> split_docs]

\* index_codebase: the result of _process_and_index_files is not returned
IndexCodebaseOp(f, store, repo_path, index_path, loadable) ==
    LET relevant_files == FilterFiles(f, repo_path, Filters.allowed_extensions)
        r == ProcessAndIndexFiles(f, store, relevant_files, index_path, loadable)
    IN  [value |-> None, inner |-> r.value, store |-> r.store,
         relevant_files |-> relevant_files, docs |-> r.docs,
         split_docs |-> r.split_docs]

\* index_wiki: only markdown files; the result is not returned either
IndexWikiOp(f, store, wiki_path, index_path, loadable) ==
    LET relevant_files == FilterFiles(f, wiki_path, {".md"})
        r == ProcessAndIndexFiles(f, store, relevant_files, index_path, loadable)
    IN  [value |-> None, inner |-> r.value, store |-> r.store,
         relevant_files |-> relevant_files, docs |-> r.docs,
         split_docs |-> r.split_docs]

\* os.getenv("VECTOR_DB_PATH", "vector_stores")
VectorDbPath == <<"vector_stores">>

-----------------------------------------------------------------------------
(* Initial states *)

InitState ==
    [repo_name |-> "", repo_path |-> <<>>,
     flat_wiki_structure |-> EmptyFlat,
     nested_wiki_structure |-> EmptyNested,
     output_path |-> <<>>]

\* the hierarchy builder about to run on an arbitrary flat structure
InitNest ==
    /\ pc = "reconstruct_hierarchy"
    /\ \E flat \in FlatWikiStructures(MaxPages, Files, Parents) :
           state = [InitState EXCEPT !.flat_wiki_structure = flat]
    /\ stack = <<>>
    /\ trace = <<"plan_structure">>
    /\ fs = <<>>
    /\ collections = <<>>
    /\ ret = NoCall

\* the service started: one repository is ingested, nothing is generated
\* or indexed yet
Init ==
    /\ pc = "idle"
    /\ state = InitState
    /\ stack = <<>>
    /\ trace = <<>>
    /\ fs = MakeDirs(<<>>, <<"cloned_repos", ClonedRepo>>)
    /\ collections = <<>>
    /\ ret = NoCall

-----------------------------------------------------------------------------
(* Nodes of the orchestrator graph *)

\* node reconstruct_hierarchy, then the edge to save_plan
ReconstructHierarchyNode ==
    /\ pc = "reconstruct_hierarchy"
    /\ state' = [state EXCEPT !.nested_wiki_structure =
                                  ReconstructHierarchy(state.flat_wiki_structure)]
    /\ pc' = "save_plan"
    /\ trace' = Append(trace, "reconstruct_hierarchy")
    /\ UNCHANGED <<stack, fs, collections, ret>>

\* workflow.invoke(initial_state, {"recursion_limit": 10})
RecursionLimit == 10

\* the stages of the graph, in the order of its edges
Stages ==
    <<"plan_structure", "reconstruct_hierarchy", "save_plan",
      "generate_pages", "index_wiki">>

\* the exception leaves workflow.invoke and generate: nothing catches it
Raised(what) == [op |-> "generate", outcome |-> "raised", value |-> what]

\* WikiOrchestrator.generate: the path check, the initial state, and the
\* entry point of the graph.  Calls come one after the other.
Generate ==
    /\ pc \in {"idle", "done", "failed"}
    /\ \E repo_name \in RepoNames :
        LET repo_path == <<"cloned_repos", repo_name>>
        IN  IF ~Exists(fs, repo_path)
            THEN /\ pc' = "failed"
                 /\ ret' = Raised("FileNotFoundError")
                 /\ state' = InitState
                 /\ UNCHANGED <<fs, collections>>
            ELSE /\ pc' = "plan_structure"
                 /\ ret' = NoCall
                 /\ state' = [InitState EXCEPT !.repo_name = repo_name,
                                               !.repo_path = repo_path]
                 /\ fs' = [q \in DOMAIN fs |-> Age(fs[q])]
                 /\ collections' =
                        [d \in DOMAIN collections |->
                            {AgeChunk(ch) : ch \in collections[d]}]
    /\ stack' = <<>>
    /\ trace' = <<>>

\* node plan_structure: the architect's plan is whatever the model proposes
PlanWikiStructure ==
    /\ pc = "plan_structure"
    /\ \E structure \in FlatWikiStructures(MaxPlanPages, PlanFiles, PlanParents) :
           state' = [state EXCEPT !.flat_wiki_structure = structure]
    /\ pc' = "reconstruct_hierarchy"
    /\ trace' = Append(trace, "plan_structure")
    /\ UNCHANGED <<stack, fs, collections, ret>>

\* the architect raises (the model's output fails schema validation)
PlanStructureRaises ==
    /\ pc = "plan_structure"
    /\ pc' = "failed"
    /\ ret' = Raised("architect")
    /\ trace' = Append(trace, "plan_structure")
    /\ UNCHANGED <<state, stack, fs, collections>>

\* WikiStructure.dict(): each Page with the dicts of its pages
RECURSIVE PageDict(_, _)
PageDict(heap, f) ==
    [title |-> heap[f].title,
     file  |-> heap[f].file,
     pages |-> [i \in 1..Len(heap[f].pages) |-> PageDict(heap, heap[f].pages[i])]]

StructureDict(nested) ==
    [title |-> nested.title,
     pages |-> [i \in 1..Len(nested.pages) |-> PageDict(nested.heap, nested.pages[i])]]

\* json.dump(structure_dict, f, indent=2)
Manifest(nested) == [kind |-> "json", gen |-> "cur", data |-> StructureDict(nested)]

\* os.path.join("wikis", state["repo_name"])
OutputPath(repo_name) == <<"wikis", repo_name>>

\* save_plan writing the flat plan it was given instead of the nested one
ManifestOf_Flat(s) ==
    [kind |-> "json", gen |-> "cur",
     data |-> [title |-> s.flat_wiki_structure.title,
               pages |-> [i \in 1..Len(s.flat_wiki_structure.pages) |->
                             [title |-> s.flat_wiki_structure.pages[i].title,
                              file  |-> s.flat_wiki_structure.pages[i].file,
                              pages |-> <<>>]]]]

\* what save_plan writes to structure.json
ManifestOf(s) == Manifest(s.nested_wiki_structure)

\* node save_plan.  dict() of a structure in which a Page reachable from
\* the top level is its own descendant does not end: RecursionError, after
\* the directory was made and before the file is opened.
SavePlan ==
    /\ pc = "save_plan"
    /\ LET output_path == OutputPath(state.repo_name)
           made == MakeDirs(fs, output_path)
       IN  IF CyclicFromTop(state.nested_wiki_structure)
           THEN /\ fs' = made
                /\ pc' = "failed"
                /\ ret' = Raised("RecursionError")
                /\ state' = state
           ELSE /\ fs' = WriteFile(made, PathJoin(output_path, "structure.json"),
                                   ManifestOf(state))
                /\ pc' = "generate_pages"
                /\ ret' = ret
                /\ state' = [state EXCEPT !.output_path = output_path]
    /\ trace' = Append(trace, "save_plan")
    /\ UNCHANGED <<stack, collections>>

\* makedirs or open raises (OSError): the directory may have been made
SavePlanRaises ==
    /\ pc = "save_plan"
    /\ \E made \in BOOLEAN :
           fs' = IF made THEN MakeDirs(fs, OutputPath(state.repo_name)) ELSE fs
    /\ pc' = "failed"
    /\ ret' = Raised("OSError")
    /\ trace' = Append(trace, "save_plan")
    /\ UNCHANGED <<state, stack, collections>>

\* PageWriter.write_page: the markdown it returns is the model's; the
\* value names the call it answers
WritePage(repo_name, page_title, parent_title) ==
    [kind |-> "md", gen |-> "cur", repo_name |-> repo_name,
     title |-> page_title, parent_title |-> parent_title]

\* a frame of process_level: its list, the next index, its parent_title
Frame(pages, parent_title) == [pages |-> pages, i |-> 1, parent_title |-> parent_title]

\* frames whose for loop is over return
RECURSIVE Unwind(_)
Unwind(frames) ==
    IF frames = <<>> THEN <<>>
    ELSE IF frames[Len(frames)].i > Len(frames[Len(frames)].pages)
         THEN Unwind(SubSeq(frames, 1, Len(frames) - 1))
         ELSE frames

\* node generate_pages, up to the first call of process_level
GenerateAllPages ==
    /\ pc = "generate_pages"
    /\ stack' = Unwind(<<Frame(state.nested_wiki_structure.pages,
                               state.nested_wiki_structure.title)>>)
    /\ pc' = "process_level"
    /\ trace' = Append(trace, "generate_pages")
    /\ UNCHANGED <<state, fs, collections, ret>>

\* the directory a page file is written into
PageDir(s) == s.output_path

\* the sub-pages of a page put off until the loop that found the page is
\* over
ProcessLevelStep_SubPagesLast ==
    /\ pc = "process_level"
    /\ stack # <<>>
    /\ LET n == Len(stack)
           frame == stack[n]
           page == state.nested_wiki_structure.heap[frame.pages[frame.i]]
           page_content == WritePage(state.repo_name, page.title, frame.parent_title)
           file_path == PathJoin(PageDir(state), page.file)
           advanced == [stack EXCEPT ![n].i = @ + 1]
       IN  /\ fs' = WriteFile(fs, file_path, page_content)
           /\ stack' = Unwind(IF page.pages # <<>>
                              THEN <<Frame(page.pages, page.title)>> \o advanced
                              ELSE advanced)
    /\ UNCHANGED <<pc, state, trace, collections, ret>>

\* one iteration of the loop of process_level: write_page, the file write,
\* and the recursion into the page's own pages
ProcessLevelStep ==
    /\ pc = "process_level"
    /\ stack # <<>>
    /\ LET n == Len(stack)
           frame == stack[n]
           page == state.nested_wiki_structure.heap[frame.pages[frame.i]]
           page_content == WritePage(state.repo_name, page.title, frame.parent_title)
           file_path == PathJoin(PageDir(state), page.file)
           advanced == [stack EXCEPT ![n].i = @ + 1]
       IN  /\ fs' = WriteFile(fs, file_path, page_content)
           /\ stack' = Unwind(IF page.pages # <<>>
                              THEN Append(advanced, Frame(page.pages, page.title))
                              ELSE advanced)
    /\ UNCHANGED <<pc, state, trace, collections, ret>>

\* an error handler that removes the pages written so far
WritePageRaises_Cleanup ==
    /\ pc = "process_level"
    /\ stack # <<>>
    /\ pc' = "failed"
    /\ ret' = Raised("write_page")
    /\ stack' = <<>>
    /\ fs' = [q \in {r \in DOMAIN fs : fs[r].kind # "md" \/ fs[r].gen # "cur"} |-> fs[q]]
    /\ UNCHANGED <<state, trace, collections>>

\* write_page or open raises in the middle of the walk
WritePageRaises ==
    /\ pc = "process_level"
    /\ stack # <<>>
    /\ pc' = "failed"
    /\ ret' = Raised("write_page")
    /\ stack' = <<>>
    /\ UNCHANGED <<state, trace, fs, collections>>

\* the graph with generate_pages wired to END
GenerateAllPagesReturn_ToEnd ==
    /\ pc = "process_level"
    /\ stack = <<>>
    /\ pc' = "done"
    /\ ret' = [op |-> "generate", outcome |-> "returned", value |-> None]
    /\ UNCHANGED <<state, stack, trace, fs, collections>>

\* process_level has returned: the node returns {}
GenerateAllPagesReturn ==
    /\ pc = "process_level"
    /\ stack = <<>>
    /\ pc' = "index_wiki"
    /\ UNCHANGED <<state, stack, trace, fs, collections, ret>>

\* os.path.join(VECTOR_DB_PATH, repo_name, "wiki")
WikiIndexPath(repo_name) == VectorDbPath \o <<repo_name, "wiki">>

\* index_generated_wiki called with the working copy as wiki_path
IndexGeneratedWiki_RepoPath ==
    /\ pc = "index_wiki"
    /\ \E loadable \in SUBSET FilterFiles(fs, state.repo_path, {".md"}) :
        LET r == IndexWikiOp(fs, collections, state.repo_path,
                             WikiIndexPath(state.repo_name), loadable)
        IN  /\ collections' = r.store
            /\ ret' = [op |-> "generate", outcome |-> "returned", value |-> None,
                       relevant_files |-> r.relevant_files,
                       index_path |-> WikiIndexPath(state.repo_name)]
    /\ pc' = "done"
    /\ trace' = Append(trace, "index_wiki")
    /\ UNCHANGED <<state, stack, fs>>

\* node index_wiki, then END: generate returns None; ret also keeps what
\* index_wiki was called with and the files it handed on
IndexGeneratedWiki ==
    /\ pc = "index_wiki"
    /\ \E loadable \in SUBSET FilterFiles(fs, state.output_path, {".md"}) :
        LET r == IndexWikiOp(fs, collections, state.output_path,
                             WikiIndexPath(state.repo_name), loadable)
        IN  /\ collections' = r.store
            /\ ret' = [op |-> "generate", outcome |-> "returned", value |-> None,
                       relevant_files |-> r.relevant_files,
                       index_path |-> WikiIndexPath(state.repo_name)]
    /\ pc' = "done"
    /\ trace' = Append(trace, "index_wiki")
    /\ UNCHANGED <<state, stack, fs>>

\* the embeddings or the vector store raise
IndexWikiRaises ==
    /\ pc = "index_wiki"
    /\ pc' = "failed"
    /\ ret' = Raised("index_wiki")
    /\ trace' = Append(trace, "index_wiki")
    /\ UNCHANGED <<state, stack, fs, collections>>

Next ==
    \/ Generate
    \/ PlanWikiStructure
    \/ PlanStructureRaises
    \/ ReconstructHierarchyNode
    \/ SavePlan
    \/ SavePlanRaises
    \/ GenerateAllPages
    \/ ProcessLevelStep
    \/ WritePageRaises
    \/ GenerateAllPagesReturn
    \/ IndexGeneratedWiki
    \/ IndexWikiRaises

Spec == Init /\ [][Next]_vars

NextNest == ReconstructHierarchyNode

SpecNest == InitNest /\ [][NextNest]_vars

-----------------------------------------------------------------------------
(* The indexer on its own: index_codebase and index_wiki called again and  *)
(* again while the working copy and the wiki directory change              *)

\* the files a working copy of the repository may hold, below its root
SourceFiles ==
    { <<"a", "x.py">>, <<"a", "node_modules", "y.py">>,
      <<"a", "readme.md">>, <<"a", "img.png">> }

\* the files the wiki directory may hold
WikiDirFiles == {"01_Intro.md", "02_A.md", "structure.json"}

SourceText == [kind |-> "text"]

RepoPath(repo_name) == <<"cloned_repos", repo_name>>

\* os.path.join(VECTOR_DB_PATH, repo_name, "code")
CodeIndexPath(repo_name) == VectorDbPath \o <<repo_name, "code">>

RECURSIVE MakeAllDirs(_, _)
MakeAllDirs(f, paths) ==
    IF paths = {} THEN f
    ELSE LET p == CHOOSE q \in paths : TRUE
         IN  MakeAllDirs(MakeDirs(f, SubSeq(p, 1, Len(p) - 1)), paths \ {p})

\* the tree with the files `files` (path -> content) put below root, and
\* nothing else there
TreeWith(f, root, files) ==
    LET kept == [q \in {r \in DOMAIN f : ~Under(r, root)} |-> f[q]]
        dirs == MakeAllDirs(MakeDirs(kept, root), DOMAIN files)
    IN  [q \in DOMAIN dirs \cup DOMAIN files |->
            IF q \in DOMAIN files THEN files[q] ELSE dirs[q]]

WorkingCopy(repo_name, rel) ==
    [q \in {RepoPath(repo_name) \o r : r \in rel} |-> SourceText]

WikiDir(repo_name, names) ==
    [q \in {PathJoin(OutputPath(repo_name), n) : n \in names} |->
        IF q[Len(q)] = "structure.json" THEN Stale("json") ELSE Stale("md")]

InitIndex ==
    /\ pc = "idle"
    /\ state = InitState
    /\ stack = <<>>
    /\ trace = <<>>
    /\ \E rel \in SUBSET SourceFiles, names \in SUBSET WikiDirFiles :
           fs = TreeWith(TreeWith(<<>>, RepoPath(ClonedRepo),
                                  WorkingCopy(ClonedRepo, rel)),
                         OutputPath(ClonedRepo), WikiDir(ClonedRepo, names))
    /\ collections = <<>>
    /\ ret = NoCall

\* the entries earlier calls added to the collections
AgeStore(store) == [d \in DOMAIN store |-> {AgeChunk(ch) : ch \in store[d]}]

\* what a call of an index operation gave its caller, and what it did
IndexResult(op, r, persist_directory, before) ==
    [op |-> op, outcome |-> "returned", value |-> r.value, inner |-> r.inner,
     relevant_files |-> r.relevant_files, docs |-> r.docs,
     split_docs |-> r.split_docs,
     persist_directory |-> persist_directory, wrote |-> r.store # before]

\* a call of index_codebase for the ingested repository
IndexCodebase ==
    /\ \E loadable \in SUBSET FilterFiles(fs, RepoPath(ClonedRepo),
                                          Filters.allowed_extensions) :
        LET before == AgeStore(collections)
            r == IndexCodebaseOp(fs, before, RepoPath(ClonedRepo),
                                 CodeIndexPath(ClonedRepo), loadable)
        IN  /\ collections' = r.store
            /\ ret' = IndexResult("index_codebase", r, CodeIndexPath(ClonedRepo), before)
    /\ UNCHANGED <<pc, state, stack, trace, fs>>

\* a call of index_wiki for the repository's wiki directory
IndexWiki ==
    /\ \E loadable \in SUBSET FilterFiles(fs, OutputPath(ClonedRepo), {".md"}) :
        LET before == AgeStore(collections)
            r == IndexWikiOp(fs, before, OutputPath(ClonedRepo),
                             WikiIndexPath(ClonedRepo), loadable)
        IN  /\ collections' = r.store
            /\ ret' = IndexResult("index_wiki", r, WikiIndexPath(ClonedRepo), before)
    /\ UNCHANGED <<pc, state, stack, trace, fs>>

\* the repository is ingested again: the working copy is removed and a
\* fresh one put in its place
Reingest ==
    /\ \E rel \in SUBSET SourceFiles :
           fs' = TreeWith(fs, RepoPath(ClonedRepo), WorkingCopy(ClonedRepo, rel))
    /\ UNCHANGED <<pc, state, stack, trace, collections, ret>>

\* a generate call wrote a manifest and pages into the wiki directory:
\* files are added or replaced, none is removed
WikiWritten ==
    /\ \E names \in SUBSET WikiDirFiles :
           fs' = [q \in DOMAIN fs \cup DOMAIN WikiDir(ClonedRepo, names) |->
                     IF q \in DOMAIN fs THEN fs[q] ELSE WikiDir(ClonedRepo, names)[q]]
    /\ UNCHANGED <<pc, state, stack, trace, collections, ret>>

NextIndex ==
    \/ IndexCodebase
    \/ IndexWiki
    \/ Reingest
    \/ WikiWritten

SpecIndex == InitIndex /\ [][NextIndex]_vars

-----------------------------------------------------------------------------
(* The hierarchy builder's claims, checked under SpecNest *)

FilesOf(pages) == {pages[i].file : i \in 1..Len(pages)}

UniqueFiles(pages) ==
    \A i, j \in 1..Len(pages) : pages[i].file = pages[j].file => i = j

\* the files one parent_file link above the pages whose files are in S
ParentsOf(pages, S) ==
    {pages[i].parent_file : i \in {k \in 1..Len(pages) : pages[k].file \in S}}
        \cap FilesOf(pages)

RECURSIVE AncestorsFrom(_, _)
AncestorsFrom(pages, S) ==
    LET T == S \cup ParentsOf(pages, S)
    IN  IF T = S THEN S ELSE AncestorsFrom(pages, T)

\* no page is reached again by following parent_file links from it
AcyclicParents(pages) ==
    \A i \in 1..Len(pages) :
        pages[i].file \notin AncestorsFrom(pages, ParentsOf(pages, {pages[i].file}))

\* the files of the pages of a flat list that pass Test, in list order
RECURSIVE FilesWhere(_, _, _)
FilesWhere(pages, Test(_), i) ==
    IF i > Len(pages) THEN <<>>
    ELSE (IF Test(pages[i]) THEN <<pages[i].file>> ELSE <<>>)
             \o FilesWhere(pages, Test, i + 1)

Built == pc = "save_plan"

FlatPages == state.flat_wiki_structure.pages

Nested == state.nested_wiki_structure

\* C1: for a flat list with unique files and acyclic parent links, the
\* pre-order traversal of the nested structure visits exactly the files of
\* the input, each once; the empty list gives an empty top level.
C1_PreOrderVisitsEachFileOnce ==
    (Built /\ UniqueFiles(FlatPages) /\ AcyclicParents(FlatPages)) =>
        LET po == PreOrder(Nested.heap, Nested.pages)
        IN  /\ Len(po) = Len(FlatPages)
            /\ SeqToSet(po) = FilesOf(FlatPages)
            /\ \A i, j \in 1..Len(po) : po[i] = po[j] => i = j
            /\ (FlatPages = <<>> => Nested.pages = <<>>)

\* a three-level chain with unique files has been nested
C1_Witness ==
    /\ Built /\ UniqueFiles(FlatPages) /\ AcyclicParents(FlatPages)
    /\ Len(FlatPages) = 3
    /\ \E i, j \in 1..3 :
           /\ FlatPages[i].parent_file = FlatPages[j].file
           /\ FlatPages[j].parent_file \in FilesOf(FlatPages)
    /\ Len(Nested.pages) = 1

\* C2: no Page built by reconstruct_hierarchy is its own descendant,
\* whatever the parent_file links of the flat list.
C2_NoPageIsItsOwnDescendant ==
    Built => \A f \in DOMAIN Nested.heap : f \notin Descendants(Nested.heap, f)

\* C3: a page whose parent_file is set but is the file of no page of the
\* list is in the top-level list, as a page without parent_file is.
C3_OrphanIsTopLevel ==
    Built =>
        \A i \in 1..Len(FlatPages) :
            (\/ ~Truthy(FlatPages[i].parent_file)
             \/ FlatPages[i].parent_file \notin FilesOf(FlatPages))
                => FlatPages[i].file \in SeqToSet(Nested.pages)

\* an orphan was nested next to a page that found its parent
C3_Witness ==
    /\ Built
    /\ \E i, j \in 1..Len(FlatPages) :
           /\ FlatPages[i].parent_file = GhostFile
           /\ FlatPages[i].file \in SeqToSet(Nested.pages)
           /\ FlatPages[j].parent_file \in FilesOf(FlatPages)

IsTopLevel(p) ==
    ~Truthy(p.parent_file) \/ p.parent_file \notin FilesOf(FlatPages)

ExampleFlat ==
    << [title |-> "T1", file |-> "01_Intro.md", parent_file |-> None],
       [title |-> "T2", file |-> "02_A.md", parent_file |-> None],
       [title |-> "T3", file |-> "02_01_B.md", parent_file |-> "02_A.md"] >>

\* C4: every level of the nested result lists its pages in flat-list order:
\* the top level is the sub-list of the pages without a findable parent, and
\* a page's children are the sub-list of the pages naming it; the flat list
\* [01_Intro, 02_A, 02_01_B under 02_A] gives [01_Intro, 02_A[02_01_B]].
C4_LevelsKeepFlatOrder ==
    Built =>
        /\ Nested.pages = FilesWhere(FlatPages, IsTopLevel, 1)
        /\ \A f \in DOMAIN Nested.heap :
               Nested.heap[f].pages =
                   FilesWhere(FlatPages, LAMBDA p : p.parent_file = f, 1)
        /\ FlatPages = ExampleFlat =>
               /\ Nested.pages = <<"01_Intro.md", "02_A.md">>
               /\ Nested.heap["02_A.md"].pages = <<"02_01_B.md">>
               /\ Nested.heap["01_Intro.md"].pages = <<>>
               /\ Nested.heap["02_01_B.md"].pages = <<>>

\* the example list has been nested
C4_Witness ==
    /\ Built
    /\ FlatPages = ExampleFlat
    /\ Nested.pages = <<"01_Intro.md", "02_A.md">>

-----------------------------------------------------------------------------
(* The orchestrator's claims, checked under Spec *)

IsPrefix(a, b) == Len(a) <= Len(b) /\ a = SubSeq(b, 1, Len(a))

\* the stages run before a position of the graph is reached
StagesBefore(where) ==
    CASE where = "plan_structure"        -> 0
      [] where = "reconstruct_hierarchy" -> 1
      [] where = "save_plan"             -> 2
      [] where = "generate_pages"        -> 3
      [] where = "process_level"         -> 4
      [] where = "index_wiki"            -> 4
      [] where = "done"                  -> 5

\* C5: a generate call runs plan_structure, reconstruct_hierarchy,
\* save_plan, generate_pages, index_wiki in that order, each once, none
\* skipped and none run again; when it is done all five have run, within
\* the step limit.
C5_StagesRunInOrderOnce ==
    /\ IsPrefix(trace, Stages)
    /\ Len(trace) <= RecursionLimit
    /\ pc \notin {"idle", "failed"} => trace = SubSeq(Stages, 1, StagesBefore(pc))
    /\ pc = "done" => trace = Stages

\* a run over a two-page plan is done
C5_Witness ==
    /\ pc = "done"
    /\ ret.outcome = "returned"
    /\ trace = Stages
    /\ Len(state.flat_wiki_structure.pages) = 2

InRun == pc \notin {"idle", "done", "failed"}

EarlierRunCompleted ==
    /\ WikiIndexPath(state.repo_name) \in DOMAIN collections
    /\ \E ch \in collections[WikiIndexPath(state.repo_name)] : ch.gen = "old"

\* C7: after a later run for the same repository is done, wikis/<repo_name>
\* holds that run's manifest and no page file written by an earlier run.
C7_RerunOverwritesEverything ==
    (pc = "done" /\ EarlierRunCompleted) =>
        \A q \in DOMAIN fs :
            (Under(q, OutputPath(state.repo_name)) /\ fs[q].kind # "dir")
                => fs[q].gen = "cur"

\* the titles write_page may get as parent_title for Page object f
ContainerTitles(nested, f) ==
    (IF f \in SeqToSet(nested.pages) THEN {nested.title} ELSE {})
        \cup {nested.heap[g].title :
                 g \in {h \in DOMAIN nested.heap : f \in SeqToSet(nested.heap[h].pages)}}

\* C8: when generate is done, wikis/<repo_name>/structure.json holds the
\* nested structure of the run, state's output_path is wikis/<repo_name>,
\* and every page of the structure, at any depth, has its file there
\* holding what write_page returned for it in this run.
C8_ManifestAndPagesOnDisk ==
    pc = "done" =>
        LET nested == state.nested_wiki_structure
            dir == OutputPath(state.repo_name)
        IN  /\ state.output_path = dir
            /\ Exists(fs, PathJoin(dir, "structure.json"))
            /\ fs[PathJoin(dir, "structure.json")] = Manifest(nested)
            /\ \A f \in Reachable(nested) :
                   /\ Exists(fs, PathJoin(dir, nested.heap[f].file))
                   /\ \E parent_title \in ContainerTitles(nested, f) :
                          fs[PathJoin(dir, nested.heap[f].file)] =
                              WritePage(state.repo_name, nested.heap[f].title,
                                        parent_title)

\* a run over a plan with a sub-page is done
C8_Witness ==
    /\ pc = "done"
    /\ \E f \in Reachable(state.nested_wiki_structure) :
           state.nested_wiki_structure.heap[f].pages # <<>>
    /\ fs[PathJoin(OutputPath(ClonedRepo), "structure.json")].gen = "cur"

-----------------------------------------------------------------------------
(* The indexer's claims, checked under SpecIndex *)

IndexCallReturned ==
    ret.op \in {"index_codebase", "index_wiki"} /\ ret.outcome = "returned"

\* C9: an index operation that selects no file, or loads no file into a
\* chunk, gives its caller the boolean False, does not raise, and writes
\* nothing to the collection.
C9_NoChunksReportsFalse ==
    (ret.op \in {"index_codebase", "index_wiki"} /\ ret.split_docs = {}) =>
        /\ ret.outcome = "returned"
        /\ ret.value = "False"
        /\ ~ret.wrote

\* C10: after an index operation has persisted the chunks of its file set
\* into a collection, the collection holds the chunks of that file set and
\* no chunk of a file that only an earlier run on the same location had.
C10_ReindexReplaces ==
    (IndexCallReturned /\ ret.inner = "True") =>
        /\ ret.split_docs \subseteq collections[ret.persist_directory]
        /\ {ch.source : ch \in collections[ret.persist_directory]}
               \subseteq ret.relevant_files

-----------------------------------------------------------------------------
(* The answerers: QAAgent and GlobalQAAgent over the persisted collections  *)

\* the directories the persisted collections occupy
StoreDirs(store) == UNION {Prefixes(d) : d \in DOMAIN store}

\* os.path.exists, over the files and the persisted collections
PathExists(f, store, p) == Exists(f, p) \/ p \in StoreDirs(store)

\* Chroma(persist_directory=d, embedding_function=...): opens the
\* collection persisted at d, and makes an empty one when d holds none
OpenChroma(store, d) ==
    [e \in DOMAIN store \cup {d} |-> IF e \in DOMAIN store THEN store[e] ELSE {}]

\* what a retriever with search_kwargs {"k": k} may give back: k entries
\* of the collection, or all of them when it has no more than k
Retrieve(collection, k) ==
    IF Cardinality(collection) <= k THEN {collection}
    ELSE {S \in SUBSET collection : Cardinality(S) = k}

\* search_kwargs={"k": 8} of QAAgent
QATopK == 8

\* search_kwargs={"k": 2} of GlobalQAAgent
GlobalTopK == 2

\* the persist directory QAAgent derives from a repository name
RepoIndexPath(repo_name) == PathJoin(VectorDbPath, repo_name)

\* a retriever over whatever lies at <vector_db_path>/<repo_name>, with no
\* check that anything is there
GetRetriever_NoCheck(f, store, vector_db_path, repo_name) ==
    [outcome |-> "returned", value |-> PathJoin(vector_db_path, repo_name),
     store |-> OpenChroma(store, PathJoin(vector_db_path, repo_name)),
     queried |-> {PathJoin(vector_db_path, repo_name)}]

\* QAAgent._get_retriever: the directories it opens, and the store after
GetRetriever(f, store, vector_db_path, repo_name) ==
    LET persist_directory == PathJoin(vector_db_path, repo_name)
    IN  IF ~PathExists(f, store, persist_directory)
        THEN [outcome |-> "raised", value |-> "FileNotFoundError",
              store |-> store, queried |-> {}]
        ELSE [outcome |-> "returned", value |-> persist_directory,
              store |-> OpenChroma(store, persist_directory),
              queried |-> {persist_directory}]

\* QAAgent.get_answer: the retriever, the documents it finds, and the
\* model's answer over them
GetAnswer ==
    /\ \E repo_name \in RepoNames :
        LET r == GetRetriever(fs, collections, VectorDbPath, repo_name)
        IN  IF r.outcome = "raised"
            THEN /\ ret' = [op |-> "get_answer", repo_name |-> repo_name,
                            outcome |-> "raised", value |-> r.value,
                            queried |-> {}, context |-> {}, llm |-> FALSE]
                 /\ collections' = collections
            ELSE /\ \E docs \in Retrieve(r.store[r.value], QATopK) :
                        ret' = [op |-> "get_answer", repo_name |-> repo_name,
                                outcome |-> "returned", value |-> "result",
                                queried |-> r.queried, context |-> docs,
                                llm |-> TRUE]
                 /\ collections' = r.store
    /\ UNCHANGED <<pc, state, stack, trace, fs>>

\* os.listdir(p): the names directly below p
ListDir(f, store, p) ==
    {q[Len(p) + 1] : q \in {r \in DOMAIN f \cup StoreDirs(store) : Under(r, p)}}

\* os.path.isdir
IsDir(f, store, p) ==
    \/ p \in StoreDirs(store)
    \/ (Exists(f, p) /\ f[p].kind = "dir")

\* GlobalQAAgent._get_all_retrievers: the index directories it opens (None
\* when there is none), and the store after
GetAllRetrievers(f, store, vector_db_path) ==
    IF ~PathExists(f, store, vector_db_path)
    THEN [outcome |-> "raised", value |-> "FileNotFoundError",
          store |-> store, queried |-> {}]
    ELSE LET repo_names == {n \in ListDir(f, store, vector_db_path) :
                               IsDir(f, store, PathJoin(vector_db_path, n))}
             found == {d \in UNION {{PathJoin(PathJoin(vector_db_path, n), "code"),
                                     PathJoin(PathJoin(vector_db_path, n), "wiki")}
                                    : n \in repo_names} :
                          PathExists(f, store, d)}
         IN  [outcome |-> "returned",
              value |-> IF found = {} THEN None ELSE "MergerRetriever",
              store |-> store, queried |-> found]

\* the documents a merged retriever may give: those of each of its
\* retrievers, put together
RECURSIVE Merged(_, _, _)
Merged(store, dirs, k) ==
    IF dirs = {} THEN {{}}
    ELSE LET d == CHOOSE e \in dirs : TRUE
         IN  {a \cup b : a \in Retrieve(store[d], k),
                         b \in Merged(store, dirs \ {d}, k)}

NothingIndexedMessage == "No repositories have been indexed yet."

\* GlobalQAAgent.get_answer
GlobalGetAnswer ==
    /\ LET r == GetAllRetrievers(fs, collections, VectorDbPath)
       IN  IF r.outcome = "raised"
           THEN ret' = [op |-> "global_get_answer", outcome |-> "raised",
                        value |-> r.value, queried |-> {}, context |-> {},
                        llm |-> FALSE]
           ELSE IF r.value = None
           THEN ret' = [op |-> "global_get_answer", outcome |-> "returned",
                        value |-> NothingIndexedMessage, queried |-> {},
                        context |-> {}, llm |-> FALSE]
           ELSE \E docs \in Merged(r.store, r.queried, GlobalTopK) :
                    ret' = [op |-> "global_get_answer", outcome |-> "returned",
                            value |-> "result", queried |-> r.queried,
                            context |-> docs, llm |-> TRUE]
    /\ UNCHANGED <<pc, state, stack, trace, fs, collections>>

\* a call of index_codebase with the index directory QAAgent reads,
\* <vector_db_path>/<repo_name>
IndexCodebaseForQA ==
    /\ \E loadable \in SUBSET FilterFiles(fs, RepoPath(ClonedRepo),
                                          Filters.allowed_extensions) :
        LET before == AgeStore(collections)
            r == IndexCodebaseOp(fs, before, RepoPath(ClonedRepo),
                                 RepoIndexPath(ClonedRepo), loadable)
        IN  /\ collections' = r.store
            /\ ret' = IndexResult("index_codebase", r, RepoIndexPath(ClonedRepo), before)
    /\ UNCHANGED <<pc, state, stack, trace, fs>>

\* the service with one repository ingested, no wiki generated and nothing
\* indexed; the vector store directory is made by the first index
\* operation, or was made when the service was set up
InitAnswer ==
    /\ pc = "idle"
    /\ state = InitState
    /\ stack = <<>>
    /\ trace = <<>>
    /\ \E rel \in SUBSET {<<"a", "x.py">>, <<"a", "img.png">>}, made \in BOOLEAN :
           LET tree == TreeWith(<<>>, RepoPath(ClonedRepo),
                                WorkingCopy(ClonedRepo, rel))
           IN  fs = IF made THEN MakeDirs(tree, VectorDbPath) ELSE tree
    /\ collections = <<>>
    /\ ret = NoCall

NextAnswer ==
    \/ IndexCodebase
    \/ IndexCodebaseForQA
    \/ IndexWiki
    \/ WikiWritten
    \/ GetAnswer
    \/ GlobalGetAnswer

SpecAnswer == InitAnswer /\ [][NextAnswer]_vars

-----------------------------------------------------------------------------
(* The answerers' claims, checked under SpecAnswer *)

\* nothing is persisted at or below <vector_db_path>/<repo_name>
NoCollectionFor(store, repo_name) ==
    \A d \in DOMAIN store : ~IsPrefix(RepoIndexPath(repo_name), d)

\* the collection persisted at d has entries
Populated(store, d) == d \in DOMAIN store /\ store[d] # {}

\* C11: a get_answer call for a repository that has no collection raises
\* FileNotFoundError: it gives no answer, does not reach the model and
\* creates nothing, whatever was indexed or generated before.
C11_NoCollectionIsNotFound ==
    [][ (/\ ret' # ret
         /\ ret'.op = "get_answer"
         /\ NoCollectionFor(collections, ret'.repo_name))
        => /\ ret'.outcome = "raised"
           /\ ret'.value = "FileNotFoundError"
           /\ ~ret'.llm
           /\ collections' = collections
      ]_vars

\* get_answer raised for a repository without a collection while another
\* repository's code and wiki are indexed
C11_Witness ==
    /\ ret.op = "get_answer"
    /\ ret.outcome = "raised"
    /\ ret.value = "FileNotFoundError"
    /\ NoCollectionFor(collections, ret.repo_name)
    /\ Populated(collections, WikiIndexPath(ClonedRepo))
    /\ Populated(collections, CodeIndexPath(ClonedRepo))

\* C12: a get_answer call made once index_wiki has populated the wiki
\* collection of the repository returns an answer for which the wiki
\* collection was queried, and the code collection too when it is
\* populated.
C12_AnswerQueriesWikiAndCode ==
    [][ (/\ ret' # ret
         /\ ret'.op = "get_answer"
         /\ Populated(collections, WikiIndexPath(ret'.repo_name)))
        => /\ ret'.outcome = "returned"
           /\ WikiIndexPath(ret'.repo_name) \in ret'.queried
           /\ Populated(collections, CodeIndexPath(ret'.repo_name))
                  => CodeIndexPath(ret'.repo_name) \in ret'.queried
      ]_vars

\* no repository directory below the storage directory has a code or a
\* wiki index
NothingIndexed(store) ==
    \A d \in StoreDirs(store) :
        ~(Len(d) = Len(VectorDbPath) + 2 /\ Under(d, VectorDbPath)
            /\ d[Len(d)] \in {"code", "wiki"})

\* C13: a global get_answer call made while the storage directory holds no
\* code or wiki index returns the nothing-indexed message: it does not
\* raise and does not reach the model.
C13_NothingIndexedIsAMessage ==
    [][ (/\ ret' # ret
         /\ ret'.op = "global_get_answer"
         /\ NothingIndexed(collections))
        => /\ ret'.outcome = "returned"
           /\ ret'.value = NothingIndexedMessage
           /\ ~ret'.llm
      ]_vars

-----------------------------------------------------------------------------
(* Ingestion: RepoManager.clone_repo and RepoManager.process_zip_file      *)

\* self.base_clone_path
BaseClonePath == <<"cloned_repos">>

\* the member names an uploaded archive may list
ZipEntries ==
    { <<"proj", "main.py">>, <<"proj", "src", "x.py">>, <<"lib", "y.py">> }

\* the names uploads come with, and the dir_name derived from each
\* (".zip" removed, blanks replaced)
ZipNames == {"demo.zip", "my app.zip"}

DirName(original_filename) ==
    CASE original_filename = "demo.zip"   -> "demo"
      [] original_filename = "my app.zip" -> "my_app"

\* shutil.rmtree(p)
RmTree(f, p) == [q \in {r \in DOMAIN f : r # p /\ ~Under(r, p)} |-> f[q]]

\* zip_ref.extractall(root) for the members `entries`: each member is
\* written below root, with the directories it needs
ExtractAll(f, root, entries) ==
    LET files == {root \o e : e \in entries}
        dirs == MakeAllDirs(f, files)
    IN  [q \in DOMAIN dirs \cup files |->
            IF q \in files THEN SourceText ELSE dirs[q]]

\* {os.path.normpath(f).split(os.sep)[0] for f in zip_ref.namelist()}
TopLevelDirs(entries) == {e[1] : e \in entries}

\* shutil.move(src, dst): into dst when dst is an existing directory,
\* onto dst otherwise
Move(f, src, dst) ==
    LET real_dst == IF Exists(f, dst) /\ f[dst].kind = "dir"
                    THEN PathJoin(dst, src[Len(src)])
                    ELSE dst
        moved == {q \in DOMAIN f : q = src \/ Under(q, src)}
        Target(q) == real_dst \o SubSeq(q, Len(src) + 1, Len(q))
    IN  [q \in (DOMAIN f \ moved) \cup {Target(r) : r \in moved} |->
            IF q \in DOMAIN f \ moved THEN f[q]
            ELSE f[CHOOSE r \in moved : Target(r) = q]]

\* os.path.join(self.base_clone_path, "_temp_extract")
TempExtractPath == PathJoin(BaseClonePath, "_temp_extract")

\* what an ingestion call gave its caller; error is what the handler
\* caught, removed whether it found the destination there and removed it
IngestResult(op, name, entries, value, error, removed) ==
    [op |-> op, outcome |-> "returned", value |-> value, error |-> error,
     name |-> name, entries |-> entries, removed |-> removed]

\* the except handler of process_zip_file: the destination is removed
ExtractionFailed(f, extract_destination) ==
    RmTree(f, extract_destination)

\* shutil.move(nested_dir_path, extract_destination), the destination
\* having been made by os.makedirs before
Hoist(f, nested_dir_path, extract_destination) ==
    Move(f, nested_dir_path, extract_destination)

\* RepoManager.process_zip_file.  readable: the upload is a ZIP archive;
\* extracted: the members extractall wrote before it stopped (all of them
\* when it did not fail).
ProcessZipFile ==
    /\ \E original_filename \in ZipNames, entries \in SUBSET ZipEntries,
          readable \in BOOLEAN :
       \E extracted \in (IF readable THEN SUBSET entries ELSE {{}}) :
        LET dir_name == DirName(original_filename)
            extract_destination == PathJoin(BaseClonePath, dir_name)
            fresh == MakeDirs(RmTree(fs, extract_destination), extract_destination)
            top_level_dirs == TopLevelDirs(entries)
            Ok(f) ==
                /\ fs' = f
                /\ ret' = IngestResult("process_zip_file", original_filename,
                                       entries, extract_destination, None,
                                       Exists(fs, extract_destination))
            Failed(f, error) ==
                /\ fs' = ExtractionFailed(f, extract_destination)
                /\ ret' = IngestResult("process_zip_file", original_filename,
                                       entries, None, error,
                                       Exists(fs, extract_destination))
        IN  IF ~readable
            THEN Failed(fresh, "BadZipFile")
            ELSE IF Cardinality(top_level_dirs) = 1
            THEN LET partial == ExtractAll(RmTree(fresh, TempExtractPath),
                                           TempExtractPath, extracted)
                     nested_dir_path ==
                         PathJoin(TempExtractPath, CHOOSE d \in top_level_dirs : TRUE)
                 IN  IF extracted # entries
                     THEN Failed(partial, "extractall")
                     ELSE Ok(RmTree(Hoist(partial, nested_dir_path,
                                          extract_destination),
                                    TempExtractPath))
            ELSE LET partial == ExtractAll(fresh, extract_destination, extracted)
                 IN  IF extracted # entries
                     THEN Failed(partial, "extractall")
                     ELSE Ok(partial)
    /\ UNCHANGED <<pc, state, stack, trace, collections>>

\* the repository names derived from the URLs clone_repo is called with
CloneNames == {ClonedRepo}

\* a clone_repo that removes the old copy only once the clone is there
CloneRepo_KeepOnFailure ==
    /\ \E repo_name \in CloneNames, cloned \in BOOLEAN,
          rel \in {{<<"a", "x.py">>}, {<<"a", "x.py">>, <<"a", "readme.md">>}} :
        LET clone_destination == PathJoin(BaseClonePath, repo_name)
            cleared == RmTree(fs, clone_destination)
        IN  IF cloned
            THEN /\ fs' = TreeWith(cleared, clone_destination,
                                   WorkingCopy(repo_name, rel))
                 /\ ret' = IngestResult("clone_repo", repo_name, rel,
                                        clone_destination, None,
                                        Exists(fs, clone_destination))
            ELSE /\ fs' = fs
                 /\ ret' = IngestResult("clone_repo", repo_name, {},
                                        None, "GitCommandError",
                                        Exists(fs, clone_destination))
    /\ UNCHANGED <<pc, state, stack, trace, collections>>

\* RepoManager.clone_repo.  cloned: Repo.clone_from succeeded; otherwise it
\* raised GitCommandError and left nothing at the destination.
CloneRepo ==
    /\ \E repo_name \in CloneNames, cloned \in BOOLEAN,
          rel \in {{<<"a", "x.py">>}, {<<"a", "x.py">>, <<"a", "readme.md">>}} :
        LET clone_destination == PathJoin(BaseClonePath, repo_name)
            cleared == RmTree(fs, clone_destination)
        IN  IF cloned
            THEN /\ fs' = TreeWith(cleared, clone_destination,
                                   WorkingCopy(repo_name, rel))
                 /\ ret' = IngestResult("clone_repo", repo_name, rel,
                                        clone_destination, None,
                                        Exists(fs, clone_destination))
            ELSE /\ fs' = cleared
                 /\ ret' = IngestResult("clone_repo", repo_name, {},
                                        None, "GitCommandError",
                                        Exists(fs, clone_destination))
    /\ UNCHANGED <<pc, state, stack, trace, collections>>

\* RepoManager.__init__: the base directory is made
InitIngest ==
    /\ pc = "idle"
    /\ state = InitState
    /\ stack = <<>>
    /\ trace = <<>>
    /\ fs = MakeDirs(<<>>, BaseClonePath)
    /\ collections = <<>>
    /\ ret = NoCall

NextIngest ==
    \/ ProcessZipFile
    \/ CloneRepo

SpecIngest == InitIngest /\ [][NextIngest]_vars

-----------------------------------------------------------------------------
(* The ingestion claims, checked under SpecIngest *)

\* every member of the archive lies under one top-level directory
SingleTopLevelDir(entries) ==
    /\ entries # {}
    /\ Cardinality(TopLevelDirs(entries)) = 1
    /\ \A e \in entries : Len(e) >= 2

\* C14: after process_zip_file succeeded on an archive whose members all
\* lie under one top-level directory D, each member D/<path> is at
\* <base>/<dir_name>/<path> and <base>/<dir_name> has no entry D.
C14_SingleTopLevelDirIsHoisted ==
    (/\ ret.op = "process_zip_file"
     /\ ret.value # None
     /\ SingleTopLevelDir(ret.entries))
    => /\ \A e \in ret.entries : Exists(fs, ret.value \o Tail(e))
       /\ \A d \in TopLevelDirs(ret.entries) : ~Exists(fs, PathJoin(ret.value, d))

\* C15: a clone or an extraction that failed returns None and raises
\* nothing, and after a failed extraction neither the destination nor the
\* temporary extraction directory is there.
C15_FailureIsNoneAndCleanedUp ==
    /\ (ret.op \in {"clone_repo", "process_zip_file"} /\ ret.error # None)
           => (ret.outcome = "returned" /\ ret.value = None)
    /\ (ret.op = "process_zip_file" /\ ret.error # None)
           => (/\ ~Exists(fs, PathJoin(BaseClonePath, DirName(ret.name)))
               /\ ~Exists(fs, TempExtractPath))

-----------------------------------------------------------------------------
(* The content filter's claim, checked under SpecIndex *)

\* the files of the spec's example tree that are to be selected
ExampleSelected == { <<"a", "x.py">>, <<"a", "readme.md">> }

-----------------------------------------------------------------------------
(* Text: a Python str is the sequence of its characters *)

\* tok in s
IsSubstring(tok, s) ==
    \E i \in 0..(Len(s) - Len(tok)) : SubSeq(s, i + 1, i + Len(tok)) = tok

Whitespace == {" ", "\n", "\t"}

\* s.strip()
RECURSIVE StrStrip(_)
StrStrip(s) ==
    IF s = <<>> THEN s
    ELSE IF Head(s) \in Whitespace THEN StrStrip(Tail(s))
    ELSE IF s[Len(s)] \in Whitespace THEN StrStrip(SubSeq(s, 1, Len(s) - 1))
    ELSE s

\* s.replace(old, ""): the occurrences of old, left to right, are removed
RECURSIVE StrRemove(_, _)
StrRemove(s, old) ==
    IF Len(s) < Len(old) THEN s
    ELSE IF SubSeq(s, 1, Len(old)) = old
         THEN StrRemove(SubSeq(s, Len(old) + 1, Len(s)), old)
         ELSE <<Head(s)>> \o StrRemove(Tail(s), old)

\* c.lower(), for the capitals the texts of the model have
LowerChar(c) ==
    CASE c = "A" -> "a" [] c = "B" -> "b" [] c = "D" -> "d" [] c = "E" -> "e"
      [] c = "F" -> "f" [] c = "G" -> "g" [] c = "I" -> "i" [] c = "N" -> "n"
      [] c = "O" -> "o" [] c = "R" -> "r" [] c = "S" -> "s" [] c = "T" -> "t"
      [] OTHER -> c

\* s.lower()
StrLower(s) == [i \in 1..Len(s) |-> LowerChar(s[i])]

\* "graph"
TokGraph ==
    <<"g","r","a","p","h">>

\* "-->"
TokArrow ==
    <<"-","-",">">>

\* "IGNORE"
TokIgnore ==
    <<"I","G","N","O","R","E">>

\* the character U+0060, which a string of this module cannot hold
Backtick == "backtick"

\* "```mermaid"
FenceMermaid ==
    <<Backtick,Backtick,Backtick,"m","e","r","m","a","i","d">>

\* "```"
Fence ==
    <<Backtick,Backtick,Backtick>>

\* what the model may answer when asked for a diagram
\* "IGNORE"
RespIgnore ==
    <<"I","G","N","O","R","E">>

\* " IGNORE\n"
RespIgnorePadded ==
    <<" ","I","G","N","O","R","E","\n">>

\* "graph TD\n A-->B"
RespGraph ==
    <<"g","r","a","p","h"," ","T","D","\n"," ","A","-","-",">","B">>

\* "Some prose with no graph keyword"
RespProse ==
    <<"S","o","m","e"," ","p","r","o","s","e"," ","w","i","t","h"," ","n",
      "o"," ","g","r","a","p","h"," ","k","e","y","w","o","r","d">>

\* "graph TD\n A"
RespNoArrow ==
    <<"g","r","a","p","h"," ","T","D","\n"," ","A">>

\* "A-->B"
RespNoGraph ==
    <<"A","-","-",">","B">>

\* "```mermaid\ngraph TD\n A-->B\n```"
RespFenced ==
    <<Backtick,Backtick,Backtick,"m","e","r","m","a","i","d","\n","g","r","a","p","h"," ",
      "T","D","\n"," ","A","-","-",">","B","\n",Backtick,Backtick,Backtick>>

\* "IGNORE graph"
RespIgnoreGraph ==
    <<"I","G","N","O","R","E"," ","g","r","a","p","h">>

\* ""
RespEmpty == <<>>

DiagramResponses ==
    {RespIgnore, RespIgnorePadded, RespGraph, RespProse, RespNoArrow,
     RespNoGraph, RespFenced, RespIgnoreGraph, RespEmpty}

-----------------------------------------------------------------------------
(* The page writer: PageWriter.write_page *)

\* keywords = ['flow', 'architecture', 'structure', 'diagram',
\*             'interaction', 'sequence']
DiagramKeywords ==
    { <<"f","l","o","w">>,
      <<"a","r","c","h","i","t","e","c","t","u","r","e">>,
      <<"s","t","r","u","c","t","u","r","e">>,
      <<"d","i","a","g","r","a","m">>,
      <<"i","n","t","e","r","a","c","t","i","o","n">>,
      <<"s","e","q","u","e","n","c","e">> }

\* the documents the model may synthesize for a page: with a keyword and a
\* second-level heading after the title, with a keyword and no such
\* heading, with neither, and with a second-level heading as first line
\* "# T\n## Flow\nx"
ContentFlow ==
    <<"#"," ","T","\n","#","#"," ","F","l","o","w","\n","x">>

\* "The architecture"
ContentArch ==
    <<"T","h","e"," ","a","r","c","h","i","t","e","c","t","u","r","e">>

\* "# T\nplain"
ContentPlain ==
    <<"#"," ","T","\n","p","l","a","i","n">>

\* "## Flow\nx"
ContentHeadingFirst ==
    <<"#","#"," ","F","l","o","w","\n","x">>

PageContents == {ContentFlow, ContentArch, ContentPlain, ContentHeadingFirst}

\* the text "%%MERMAID_DIAGRAM%%", held as one element
Marker == "%%MERMAID_DIAGRAM%%"

\* _generate_diagram_if_needed taking whatever the model answers
GenerateDiagramIfNeeded_AcceptAll(topic, full_content, response) ==
    IF \E keyword \in DiagramKeywords : IsSubstring(keyword, StrLower(full_content))
    THEN StrStrip(response)
    ELSE <<>>

\* _generate_diagram_if_needed; response is the model's answer to the
\* diagram prompt, asked for only when a keyword is found
GenerateDiagramIfNeeded(topic, full_content, response) ==
    IF \E keyword \in DiagramKeywords : IsSubstring(keyword, StrLower(full_content))
    THEN LET diagram_code == StrStrip(response)
         IN  IF ~IsSubstring(TokIgnore, diagram_code)
                   /\ IsSubstring(TokGraph, diagram_code)
             THEN diagram_code
             ELSE <<>>
    ELSE <<>>

\* re.search(r'\n## .*\n', s): where the matches start and end
HeadingMatches(s) ==
    { m \in (1..Len(s)) \X (1..Len(s)) :
        /\ s[m[1]] = "\n"
        /\ m[1] + 3 <= Len(s)
        /\ SubSeq(s, m[1] + 1, m[1] + 3) = <<"#", "#", " ">>
        /\ m[2] >= m[1] + 4
        /\ s[m[2]] = "\n"
        /\ \A k \in (m[1] + 4)..(m[2] - 1) : s[k] # "\n" }

\* first_heading_match.end(), 0 when there is no match
HeadingEnd(s) ==
    IF HeadingMatches(s) = {} THEN 0
    ELSE LET first == CHOOSE m \in HeadingMatches(s) :
                          \A n \in HeadingMatches(s) : m[1] <= n[1]
         IN  first[2]

\* the end of write_page: the placeholder goes after the first
\* second-level heading, or at the end
InsertPlaceholder(final_content, diagram_code) ==
    IF diagram_code # <<>>
    THEN LET placeholder == <<"\n", "\n", Marker>> \o diagram_code
                                \o <<Marker, "\n", "\n">>
             insert_pos == HeadingEnd(final_content)
         IN  IF insert_pos > 0
             THEN SubSeq(final_content, 1, insert_pos) \o placeholder
                      \o SubSeq(final_content, insert_pos + 1, Len(final_content))
             ELSE final_content \o placeholder
    ELSE final_content

\* the plans the model may answer the first prompt with
\* ""
PlanEmpty == <<>>

\* "Let me think"
PlanProse ==
    <<"L","e","t"," ","m","e"," ","t","h","i","n","k">>

\* "1. Q1"
PlanOne ==
    <<"1","."," ","Q","1">>

\* "Plan:\n1. Q1\n12.Q2\n"
PlanTwo ==
    <<"P","l","a","n",":","\n","1","."," ","Q","1","\n","1","2",".","Q","2","\n">>

\* "See v1.2 now"
PlanVersion ==
    <<"S","e","e"," ","v","1",".","2"," ","n","o","w">>

\* "1.\nQ2"
PlanBlankItem ==
    <<"1",".","\n","Q","2">>

PlanTexts == {PlanEmpty, PlanProse, PlanOne, PlanTwo, PlanVersion, PlanBlankItem}

\* \d
Digits == {"0", "1", "2", "3", "4", "5", "6", "7", "8", "9"}

\* \d+\. matches at i: the digits from i on, as many as there are, and
\* then a dot; gives the index of the dot, 0 when there is no match
DotOfItem(s, i) ==
    IF i > Len(s) \/ s[i] \notin Digits THEN 0
    ELSE LET after == CHOOSE j \in (i + 1)..(Len(s) + 1) :
                          /\ \A k \in i..(j - 1) : s[k] \in Digits
                          /\ (j = Len(s) + 1 \/ s[j] \notin Digits)
         IN  IF after <= Len(s) /\ s[after] = "." THEN after ELSE 0

\* \s* from k on: the index of the first character that is not whitespace
SkipWhitespace(s, k) ==
    CHOOSE j \in k..(Len(s) + 1) :
        /\ \A m \in k..(j - 1) : s[m] \in Whitespace
        /\ (j = Len(s) + 1 \/ s[j] \notin Whitespace)

\* (.*) from k on: the index after the last character before a newline
SkipLine(s, k) ==
    CHOOSE j \in k..(Len(s) + 1) :
        /\ \A m \in k..(j - 1) : s[m] # "\n"
        /\ (j = Len(s) + 1 \/ s[j] = "\n")

\* re.findall(r'\d+\.\s*(.*)', s), searching from index pos on: the groups
\* of the matches, left to right, none overlapping
RECURSIVE FindAllFrom(_, _)
FindAllFrom(s, pos) ==
    LET starts == {i \in pos..Len(s) : DotOfItem(s, i) # 0}
    IN  IF starts = {} THEN <<>>
        ELSE LET i == CHOOSE m \in starts : \A n \in starts : m <= n
                 from == SkipWhitespace(s, DotOfItem(s, i) + 1)
                 to == SkipLine(s, from)
             IN  <<SubSeq(s, from, to - 1)>> \o FindAllFrom(s, to)

\* f"Provide a detailed explanation of {page_title} including its main
\* components and purpose.", the texts around the title held as one
\* element each
FallbackQuestion(page_title) ==
    <<"Provide a detailed explanation of ", page_title,
      " including its main components and purpose.">>

\* no fallback when nothing is found
ExtractQuestions_NoFallback(llm_response_text, page_title) ==
    FindAllFrom(llm_response_text, 1)

\* questions = re.findall(...), and the fallback question when nothing is
\* found
ExtractQuestions(llm_response_text, page_title) ==
    LET questions == FindAllFrom(llm_response_text, 1)
    IN  IF questions = <<>> THEN <<FallbackQuestion(page_title)>>
        ELSE questions

\* a loop that gives up at the first question that fails
ResearchNotes_StopAtFailure(questions, answered) ==
    LET failed == {i \in 1..Len(questions) : ~answered[i]}
        last == IF failed = {} THEN Len(questions)
                ELSE CHOOSE i \in failed : \A j \in failed : i <= j
    IN  [i \in 1..last |->
            [q |-> questions[i],
             a |-> IF answered[i] THEN "answer" ELSE "Could not retrieve answer."]]

\* the research loop: an answer, or the note that none could be retrieved
ResearchNotes(questions, answered) ==
    [i \in 1..Len(questions) |->
        [q |-> questions[i],
         a |-> IF answered[i] THEN "answer" ELSE "Could not retrieve answer."]]

\* the titles write_page is called with
PageTitles == {"T1"}

\* steps 1 and 2 of write_page for each plan the model may give: the
\* questions extracted from it
PlannedQuestions ==
    { [page_title |-> page_title,
       llm_response_text |-> llm_response_text,
       questions |-> ExtractQuestions(llm_response_text, page_title)]
      : page_title \in PageTitles, llm_response_text \in PlanTexts }

\* steps 4 and 5 of write_page for each document the model may synthesize
\* and each answer it may give to the diagram prompt: the diagram kept and
\* the page returned
SynthesizedPages ==
    { [page_title |-> page_title,
       final_content |-> final_content,
       asked |-> \E keyword \in DiagramKeywords :
                     IsSubstring(keyword, StrLower(final_content)),
       response |-> IF \E keyword \in DiagramKeywords :
                           IsSubstring(keyword, StrLower(final_content))
                    THEN response ELSE <<>>,
       diagram_code |-> GenerateDiagramIfNeeded(page_title, final_content, response),
       value |-> InsertPlaceholder(final_content,
                     GenerateDiagramIfNeeded(page_title, final_content, response))]
      : page_title \in PageTitles, final_content \in PageContents,
        response \in DiagramResponses }

\* PageWriter.write_page: the model's plan, the research through QAAgent,
\* the synthesis, and the diagram.  answered[i]: get_answer returned for
\* question i (it raises for every question when the repository has no
\* collection, and may raise for any).  ret keeps, with the value returned,
\* what the call went through.
WritePageCall ==
    /\ \E planned \in PlannedQuestions, page \in SynthesizedPages :
        LET questions == planned.questions
            retriever == GetRetriever(fs, collections, VectorDbPath, ClonedRepo)
        IN  /\ planned.page_title = page.page_title
            /\ \E answered \in [1..Len(questions) -> BOOLEAN] :
                  /\ (retriever.outcome = "raised")
                         => \A i \in 1..Len(questions) : ~answered[i]
                  /\ ret' = [op |-> "write_page", outcome |-> "returned",
                             value |-> page.value,
                             page_title |-> page.page_title,
                             llm_response_text |-> planned.llm_response_text,
                             questions |-> questions,
                             answered |-> answered,
                             research_notes |-> ResearchNotes(questions, answered),
                             final_content |-> page.final_content,
                             asked |-> page.asked,
                             response |-> page.response,
                             diagram_code |-> page.diagram_code]
    /\ UNCHANGED <<pc, state, stack, trace, fs, collections>>

\* one of the model calls of write_page raises: write_page does not catch it
WritePageCallRaises ==
    /\ ret' = [op |-> "write_page", outcome |-> "raised", value |-> "llm"]
    /\ UNCHANGED <<pc, state, stack, trace, fs, collections>>

\* the page writer of a repository that is ingested, with or without a
\* collection for QAAgent to read
InitPage ==
    /\ pc = "idle"
    /\ state = InitState
    /\ stack = <<>>
    /\ trace = <<>>
    /\ fs = MakeDirs(<<>>, RepoPath(ClonedRepo))
    /\ collections \in {<<>>, OpenChroma(<<>>, RepoIndexPath(ClonedRepo))}
    /\ ret = NoCall

NextPage ==
    \/ WritePageCall
    \/ WritePageCallRaises

SpecPage == InitPage /\ [][NextPage]_vars

-----------------------------------------------------------------------------
(* The page writer's claims, checked under SpecPage *)

\* a diagram placeholder is in the page
HasPlaceholder(s) == \E i \in 1..Len(s) : s[i] = Marker

\* C17: when the model's answer to the diagram prompt is the word IGNORE
\* and nothing else, write_page returns the synthesized content as it is,
\* with no diagram placeholder.
C17_IgnoreIsNeverADiagram ==
    (/\ ret.op = "write_page"
     /\ ret.outcome = "returned"
     /\ ret.asked
     /\ StrStrip(ret.response) = TokIgnore)
    => (/\ ret.diagram_code = <<>>
        /\ ~HasPlaceholder(ret.value)
        /\ ret.value = ret.final_content)

\* the model answered IGNORE for a page that has a keyword and a heading
C17_Witness ==
    /\ ret.op = "write_page"
    /\ ret.outcome = "returned"
    /\ ret.asked
    /\ ret.response = RespIgnore
    /\ ret.final_content = ContentFlow
    /\ ret.value = ContentFlow

\* C18: the diagram the model produced is put into the page only if it
\* contains graph and -->; otherwise the page is returned without a
\* placeholder.  "graph TD\n A-->B" is accepted, "Some prose with no graph
\* keyword" is not.
C18_DiagramNeedsGraphAndArrow ==
    (ret.op = "write_page" /\ ret.outcome = "returned" /\ ret.asked)
    => (/\ HasPlaceholder(ret.value)
               => (/\ IsSubstring(TokGraph, ret.response)
                   /\ IsSubstring(TokArrow, ret.response))
        /\ (ret.response = RespGraph) => HasPlaceholder(ret.value)
        /\ (ret.response = RespProse) => ~HasPlaceholder(ret.value))

-----------------------------------------------------------------------------
(* The documentation agent: DocumentationAgent and its four nodes *)

\* the nodes of the graph, in the order of its edges
DocStages == <<"planner", "research", "generate_diagram", "write_document">>

\* workflow.invoke(initial_state, {"recursion_limit": 10})
DocRecursionLimit == 10

\* a key of GraphState that no node has written yet
Unset == "unset"

\* initial_state = {"repo_name": repo_name, "research_notes": []}
DocInitialState(repo_name) ==
    [repo_name |-> repo_name, plan |-> Unset, research_notes |-> <<>>,
     diagram |-> Unset, final_document |-> Unset]

\* what the model may answer to the planner prompt, line by line
DocPlanResponses ==
    { <<>>,
      <<"1. Q1">>,
      <<"1. Q1", "", "2. Q2">>,
      <<"Here is the plan:", "  ", "1. Q1">> }

\* q.strip() of a line of the model's plan
StripLine(q) == IF q \in {"", "  "} THEN "" ELSE q

\* [q.strip() for q in response.content.split('\n') if q.strip()]
PlanOf(lines) ==
    LET NonBlank(q) == StripLine(q) # ""
        kept == SelectSeq(lines, NonBlank)
    IN  [i \in 1..Len(kept) |-> StripLine(kept[i])]

\* fallback_diagram
FallbackDiagram ==
    <<"g","r","a","p","h"," ","T","D","\n"," "," "," "," ","A","[","\"","E",
      "r","r","o","r",":"," ","C","o","u","l","d"," ","n","o","t"," ","g",
      "e","n","e","r","a","t","e"," ","a","r","c","h","i","t","e","c","t",
      "u","r","e"," ","d","i","a","g","r","a","m",".","\"","]">>

\* a validation that takes whatever the model answers
ValidateDiagram_NoFallback(response) ==
    StrStrip(StrRemove(StrRemove(StrStrip(response), FenceMermaid), Fence))

\* generate_diagram_step, from the model's answer to the diagram it
\* returns: the answer without fences, or the fallback
ValidateDiagram(response) ==
    LET diagram_code == StrStrip(response)
    IN  IF IsSubstring(TokGraph, diagram_code) /\ IsSubstring(TokArrow, diagram_code)
        THEN StrStrip(StrRemove(StrRemove(diagram_code, FenceMermaid), Fence))
        ELSE FallbackDiagram

\* DocumentationAgent.generate: the initial state and the entry point.
\* Calls come one after the other.
DocGenerate ==
    /\ pc \in {"idle", "done", "failed"}
    /\ \E repo_name \in RepoNames : state' = DocInitialState(repo_name)
    /\ pc' = "planner"
    /\ trace' = <<>>
    /\ ret' = NoCall
    /\ UNCHANGED <<stack, fs, collections>>

\* node planner
PlanStep ==
    /\ pc = "planner"
    /\ \E lines \in DocPlanResponses :
           state' = [state EXCEPT !.plan = PlanOf(lines)]
    /\ pc' = "research"
    /\ trace' = Append(trace, "planner")
    /\ UNCHANGED <<stack, fs, collections, ret>>

\* node research: every question gets a note, an answer of QAAgent or the
\* note that it failed; operator.add puts the notes after those in state
ResearchStep ==
    /\ pc = "research"
    /\ LET plan == state.plan
           retriever == GetRetriever(fs, collections, VectorDbPath, state.repo_name)
       IN  \E answered \in [1..Len(plan) -> BOOLEAN] :
             /\ (retriever.outcome = "raised") => \A i \in 1..Len(plan) : ~answered[i]
             /\ state' = [state EXCEPT !.research_notes =
                            @ \o [i \in 1..Len(plan) |->
                                    [question |-> plan[i],
                                     answer |-> IF answered[i] THEN "answer"
                                                ELSE "Error retrieving answer."]]]
    /\ pc' = "generate_diagram"
    /\ trace' = Append(trace, "research")
    /\ UNCHANGED <<stack, fs, collections, ret>>

\* the graph with generate_diagram wired to END
GenerateDiagramStep_ToEnd ==
    /\ pc = "generate_diagram"
    /\ \E response \in DiagramResponses :
           state' = [state EXCEPT !.diagram = ValidateDiagram(response)]
    /\ pc' = "done"
    /\ trace' = Append(trace, "generate_diagram")
    /\ ret' = [op |-> "generate", outcome |-> "returned",
               value |-> "Error: Document generation failed."]
    /\ UNCHANGED <<stack, fs, collections>>

\* node generate_diagram
GenerateDiagramStep ==
    /\ pc = "generate_diagram"
    /\ \E response \in DiagramResponses :
           state' = [state EXCEPT !.diagram = ValidateDiagram(response)]
    /\ pc' = "write_document"
    /\ trace' = Append(trace, "generate_diagram")
    /\ UNCHANGED <<stack, fs, collections, ret>>

\* what the model may write as the final document
FinalDocuments == {"README", ""}

\* node write_document, then END: generate returns final_document
WriteDocumentStep ==
    /\ pc = "write_document"
    /\ \E content \in FinalDocuments :
           /\ state' = [state EXCEPT !.final_document = content]
           /\ ret' = [op |-> "generate", outcome |-> "returned", value |-> content]
    /\ pc' = "done"
    /\ trace' = Append(trace, "write_document")
    /\ UNCHANGED <<stack, fs, collections>>

\* self.llm.invoke raises in planner, generate_diagram or write_document:
\* nothing catches it
DocLlmRaises ==
    /\ pc \in {"planner", "generate_diagram", "write_document"}
    /\ pc' = "failed"
    /\ ret' = [op |-> "generate", outcome |-> "raised", value |-> pc]
    /\ trace' = Append(trace, pc)
    /\ UNCHANGED <<state, stack, fs, collections>>

InitDoc ==
    /\ pc = "idle"
    /\ state = InitState
    /\ stack = <<>>
    /\ trace = <<>>
    /\ fs = MakeDirs(<<>>, RepoPath(ClonedRepo))
    /\ collections \in {<<>>, OpenChroma(<<>>, RepoIndexPath(ClonedRepo))}
    /\ ret = NoCall

NextDoc ==
    \/ DocGenerate
    \/ PlanStep
    \/ ResearchStep
    \/ GenerateDiagramStep
    \/ WriteDocumentStep
    \/ DocLlmRaises

SpecDoc == InitDoc /\ [][NextDoc]_vars

-----------------------------------------------------------------------------
(* The documentation agent's claims, checked under SpecDoc *)

\* the nodes run before a position of the graph is reached
DocStagesBefore(where) ==
    CASE where = "planner"          -> 0
      [] where = "research"         -> 1
      [] where = "generate_diagram" -> 2
      [] where = "write_document"   -> 3
      [] where = "done"             -> 4

\* C19: a generate call of the documentation agent runs planner, research,
\* generate_diagram, write_document in that order, each once; when it is
\* done all four have run, within the step limit, and the value returned
\* is the final document in state.
C19_DocStagesRunInOrderOnce ==
    /\ IsPrefix(trace, DocStages)
    /\ Len(trace) < DocRecursionLimit
    /\ pc \notin {"idle", "failed"}
           => trace = SubSeq(DocStages, 1, DocStagesBefore(pc))
    /\ pc = "done"
           => (/\ trace = DocStages
               /\ ret.outcome = "returned"
               /\ ret.value = state.final_document)

\* a run over a two-question plan is done
C19_Witness ==
    /\ pc = "done"
    /\ trace = DocStages
    /\ Len(state.plan) = 2
    /\ Len(state.research_notes) = 2
    /\ ret.value = "README"

\* C20: whatever the model answers, generate_diagram gives a diagram: the
\* answer with its fences removed when it contains graph and -->, the
\* fallback diagram otherwise; and the diagram in state when
\* write_document runs contains graph.
C20_DiagramAlwaysHasGraph ==
    /\ \A response \in DiagramResponses :
           LET code == StrStrip(response)
               diagram == ValidateDiagram(response)
           IN  /\ IsSubstring(TokGraph, diagram)
               /\ (IsSubstring(TokGraph, code) /\ IsSubstring(TokArrow, code))
                      => (/\ IsSubstring(TokArrow, diagram)
                          /\ ~IsSubstring(Fence, diagram)
                          /\ diagram # FallbackDiagram)
               /\ ~(IsSubstring(TokGraph, code) /\ IsSubstring(TokArrow, code))
                      => diagram = FallbackDiagram
    /\ pc \in {"write_document", "done"}
           => IsSubstring(TokGraph, state.diagram)
    /\ (pc = "failed" /\ ret.value = "generate_diagram")
           => state.diagram = Unset

\* write_document is about to run on the fallback diagram
C20_Witness ==
    /\ pc = "write_document"
    /\ state.diagram = FallbackDiagram
    /\ trace = SubSeq(DocStages, 1, 3)

-----------------------------------------------------------------------------
(* Placement of Page objects, checked under SpecNest *)

\* the positions of the nested structure that hold Page object f: an index
\* of the top-level list or of a page's pages list
PositionsOf(nested, f) ==
    {<<"top", i>> : i \in {k \in 1..Len(nested.pages) : nested.pages[k] = f}}
        \cup UNION { {<<g, i>> : i \in {k \in 1..Len(nested.heap[g].pages) :
                                           nested.heap[g].pages[k] = f}}
                     : g \in DOMAIN nested.heap }

\* the Page objects whose pages lists hold f
ParentPagesOf(nested, f) ==
    {g \in DOMAIN nested.heap : f \in SeqToSet(nested.heap[g].pages)}

\* C21: in the nested result every Page object is at no more than one
\* position (of the top-level list or of one page's pages list), also when
\* two FlatPages of the list carry the same file; so no Page is a child of
\* two parents.
C21_NoPagePlacedTwice ==
    Built =>
        \A f \in DOMAIN Nested.heap :
            /\ Cardinality(PositionsOf(Nested, f)) <= 1
            /\ Cardinality(ParentPagesOf(Nested, f)) <= 1

-----------------------------------------------------------------------------
(* One pass of the orchestrator from a plan the architect has returned, up *)
(* to the end of generate_pages, over plans of up to MaxPages pages        *)

\* what parent_file holds in the plans walked: nothing, or the file of a
\* page (the page itself, an earlier or a later one, or one not in the plan
\* when the plan does not use all the files)
WalkParents == {None} \cup Files

InitWalk ==
    /\ pc = "reconstruct_hierarchy"
    /\ \E flat \in FlatWikiStructures(MaxPages, Files, WalkParents) :
           state = [InitState EXCEPT !.repo_name = ClonedRepo,
                                     !.repo_path = RepoPath(ClonedRepo),
                                     !.flat_wiki_structure = flat]
    /\ stack = <<>>
    /\ trace = <<"plan_structure">>
    /\ fs = MakeDirs(<<>>, RepoPath(ClonedRepo))
    /\ collections = <<>>
    /\ ret = NoCall

NextWalk ==
    \/ ReconstructHierarchyNode
    \/ SavePlan
    \/ SavePlanRaises
    \/ GenerateAllPages
    \/ ProcessLevelStep
    \/ WritePageRaises
    \/ GenerateAllPagesReturn

SpecWalk == InitWalk /\ [][NextWalk]_vars

-----------------------------------------------------------------------------
(* The walk of generate_pages, checked under SpecWalk *)

\* the Page objects the frames of process_level have still to write, in
\* the order a depth-first pre-order walk takes them: the rest of the
\* innermost loop with everything below it, then the rest of the loop that
\* called it, and so on
RECURSIVE RemainingOf(_, _)
RemainingOf(heap, frames) ==
    IF frames = <<>> THEN <<>>
    ELSE LET n == Len(frames)
             rest == SubSeq(frames[n].pages, frames[n].i, Len(frames[n].pages))
         IN  PreOrder(heap, rest) \o RemainingOf(heap, SubSeq(frames, 1, n - 1))

\* the title of what contains the list the innermost frame walks: the page
\* the calling frame has just written, or the wiki for the top-level list
ContainerTitle(nested, frames) ==
    LET n == Len(frames)
    IN  IF n = 1 THEN nested.title
        ELSE nested.heap[frames[n - 1].pages[frames[n - 1].i - 1]].title

\* a page is written: one iteration of the loop of process_level
PageWritten == pc = "process_level" /\ pc' = "process_level" /\ stack' # stack

\* C22: generate_pages writes the pages of the nested tree one at a time in
\* depth-first pre-order: the walk starts with the whole pre-order of the
\* top-level list to do, every step writes the file of the first page
\* still to do (so a page comes before its descendants, and these before
\* its next sibling) with write_page given the title of the containing
\* page (the wiki title at the top level), and it ends with nothing left.
C22_PagesWrittenInPreOrder ==
    [][ LET nested == state.nested_wiki_structure
        IN  /\ (pc = "generate_pages" /\ pc' = "process_level")
                   => RemainingOf(nested.heap, stack')
                          = PreOrder(nested.heap, nested.pages)
            /\ PageWritten
                   => LET todo == RemainingOf(nested.heap, stack)
                          page == nested.heap[Head(todo)]
                          file_path == PathJoin(state.output_path, page.file)
                      IN  /\ todo # <<>>
                          /\ fs' = WriteFile(fs, file_path,
                                        WritePage(state.repo_name, page.title,
                                                  ContainerTitle(nested, stack)))
                          /\ RemainingOf(nested.heap, stack') = Tail(todo)
            /\ (pc = "process_level" /\ pc' = "index_wiki")
                   => RemainingOf(nested.heap, stack) = <<>>
      ]_vars

\* the walk is over for a plan in which a page with a sub-page is followed
\* by a sibling: the three files are there, each with its container's title
C22_Witness ==
    /\ pc = "index_wiki"
    /\ state.nested_wiki_structure.pages = <<"02_A.md", "01_Intro.md">>
    /\ state.nested_wiki_structure.heap["02_A.md"].pages = <<"02_01_B.md">>
    /\ UniqueFiles(state.flat_wiki_structure.pages)
    /\ LET heap == state.nested_wiki_structure.heap
           dir == OutputPath(ClonedRepo)
       IN  /\ fs[PathJoin(dir, "02_A.md")]
                  = WritePage(ClonedRepo, heap["02_A.md"].title, WikiTitle)
           /\ fs[PathJoin(dir, "02_01_B.md")]
                  = WritePage(ClonedRepo, heap["02_01_B.md"].title,
                              heap["02_A.md"].title)
           /\ fs[PathJoin(dir, "01_Intro.md")]
                  = WritePage(ClonedRepo, heap["01_Intro.md"].title, WikiTitle)

-----------------------------------------------------------------------------
(* The wiki index of a run, checked under Spec *)

\* the page files the generate call under way has written
PagesWrittenInRun ==
    {q \in DOMAIN fs : /\ Under(q, OutputPath(state.repo_name))
                       /\ fs[q].kind = "md"
                       /\ fs[q].gen = "cur"}

-----------------------------------------------------------------------------
(* The two research loops together: pages are written, then the            *)
(* documentation agent runs (the two never run at once)                    *)

\* a call of write_page before the documentation agent is first run
WritePageBeforeDoc ==
    /\ pc = "idle"
    /\ WritePageCall

NextResearch ==
    \/ WritePageBeforeDoc
    \/ DocGenerate
    \/ PlanStep
    \/ ResearchStep
    \/ GenerateDiagramStep
    \/ WriteDocumentStep
    \/ DocLlmRaises

SpecResearch == InitDoc /\ [][NextResearch]_vars

-----------------------------------------------------------------------------
(* The research loops' claim, checked under SpecResearch *)

\* the notes of write_page: one per question, in question order, the
\* placeholder for exactly the questions that failed
PageNotesComplete(r) ==
    /\ Len(r.research_notes) = Len(r.questions)
    /\ \A i \in 1..Len(r.questions) :
           /\ r.research_notes[i].q = r.questions[i]
           /\ r.research_notes[i].a =
                  IF r.answered[i] THEN "answer" ELSE "Could not retrieve answer."

\* the notes of the research step: one per question of the plan, in plan
\* order, each an answer or the note of a failure
DocNotesComplete(s) ==
    /\ Len(s.research_notes) = Len(s.plan)
    /\ \A i \in 1..Len(s.plan) :
           /\ s.research_notes[i].question = s.plan[i]
           /\ s.research_notes[i].answer \in {"answer", "Error retrieving answer."}

\* C24: in write_page and in the research step a question that the
\* answerer fails on gets a placeholder note and the loop goes on: the
\* notes hold one entry per question, in question order, whichever
\* questions failed (all of them when the repository has no collection),
\* and the research step always hands over to generate_diagram.
C24_ResearchToleratesFailures ==
    [][ /\ (ret' # ret /\ ret'.op = "write_page")
               => (/\ ret'.outcome = "returned"
                   /\ PageNotesComplete(ret')
                   /\ (collections = <<>>)
                          => \A i \in 1..Len(ret'.questions) :
                                 ret'.research_notes[i].a = "Could not retrieve answer.")
        /\ (pc = "research")
               => (/\ pc' = "generate_diagram"
                   /\ DocNotesComplete(state')
                   /\ (collections = <<>> \/ state.repo_name # ClonedRepo)
                          => \A i \in 1..Len(state.plan) :
                                 state'.research_notes[i].answer
                                     = "Error retrieving answer.")
      ]_vars

\* the research step is over for a plan of two questions of which the
\* first failed and the second was answered
C24_Witness ==
    /\ pc = "generate_diagram"
    /\ Len(state.plan) = 2
    /\ Len(state.research_notes) = 2
    /\ state.research_notes[1].answer = "Error retrieving answer."
    /\ state.research_notes[2].answer = "answer"
    /\ state.research_notes[2].question = state.plan[2]

-----------------------------------------------------------------------------
(* The placeholder's place, checked under SpecPage *)

\* where the lines of s that are second-level headings start
SecondLevelHeadings(s) ==
    {i \in 1..Len(s) : /\ (i = 1 \/ s[i - 1] = "\n")
                       /\ i + 2 <= Len(s)
                       /\ SubSeq(s, i, i + 2) = <<"#", "#", " ">>}

\* the number of characters of s up to the end of its first second-level
\* heading line, or all of s when it has no such line
PlaceholderPosition(s) ==
    IF SecondLevelHeadings(s) = {} THEN Len(s)
    ELSE LET first == CHOOSE i \in SecondLevelHeadings(s) :
                          \A j \in SecondLevelHeadings(s) : i <= j
             ends == {k \in first..Len(s) : s[k] = "\n"}
         IN  IF ends = {} THEN Len(s)
             ELSE CHOOSE k \in ends : \A m \in ends : k <= m

\* "\n\n%%MERMAID_DIAGRAM%%<diagram-source>%%MERMAID_DIAGRAM%%\n\n"
PlaceholderOf(diagram_code) ==
    <<"\n", "\n", Marker>> \o diagram_code \o <<Marker, "\n", "\n">>

\* C25: with a diagram accepted, the page write_page returns is the
\* synthesized markdown with the one placeholder
\* %%MERMAID_DIAGRAM%%<diagram-source>%%MERMAID_DIAGRAM%% put right after
\* its first second-level heading line, or at the very end when it has no
\* such line, so that taking the placeholder out gives the synthesized
\* markdown back; with no diagram accepted the page is the synthesized
\* markdown.
C25_PlaceholderAfterFirstHeading ==
    (ret.op = "write_page" /\ ret.outcome = "returned") =>
        IF ret.diagram_code # <<>>
        THEN LET pos == PlaceholderPosition(ret.final_content)
             IN  /\ ret.value = SubSeq(ret.final_content, 1, pos)
                                    \o PlaceholderOf(ret.diagram_code)
                                    \o SubSeq(ret.final_content, pos + 1,
                                              Len(ret.final_content))
                 /\ Cardinality({i \in 1..Len(ret.value) : ret.value[i] = Marker}) = 2
        ELSE ret.value = ret.final_content

-----------------------------------------------------------------------------
(* The questions write_page researches, checked under SpecPage *)

\* the questions of the notes, in the order the notes were taken
Researched(r) == [i \in 1..Len(r.research_notes) |-> r.research_notes[i].q]

\* what is to be researched for each plan: the texts of its numbered
\* items, or the one generic question when it has none
ExpectedQuestions(llm_response_text, page_title) ==
    CASE llm_response_text = PlanEmpty -> <<FallbackQuestion(page_title)>>
      [] llm_response_text = PlanProse -> <<FallbackQuestion(page_title)>>
      [] llm_response_text = PlanOne -> << <<"Q","1">> >>
      [] llm_response_text = PlanTwo -> << <<"Q","1">>, <<"Q","2">> >>
      [] llm_response_text = PlanVersion -> << <<"2"," ","n","o","w">> >>
      [] llm_response_text = PlanBlankItem -> << <<"Q","2">> >>

\* C26: write_page researches the text of every numbered item found in
\* the model's plan, in the order of the plan, and when none is found
\* exactly one generic question naming page_title; it never researches
\* nothing.
C26_QuestionsFromPlanOrFallback ==
    (ret.op = "write_page" /\ ret.outcome = "returned") =>
        /\ Researched(ret) = ExpectedQuestions(ret.llm_response_text, ret.page_title)
        /\ Len(ret.research_notes) >= 1
        /\ (\A i \in 1..Len(ret.llm_response_text) :
                ret.llm_response_text[i] \notin Digits)
               => (/\ Len(ret.research_notes) = 1
                   /\ ret.page_title \in SeqToSet(ret.research_notes[1].q))

\* the two items of a plan were researched in order, the first without an
\* answer
C26_Witness ==
    /\ ret.op = "write_page"
    /\ ret.outcome = "returned"
    /\ ret.llm_response_text = PlanTwo
    /\ Researched(ret) = << <<"Q","1">>, <<"Q","2">> >>
    /\ ret.research_notes[1].a = "Could not retrieve answer."
    /\ ret.research_notes[2].a = "answer"

-----------------------------------------------------------------------------
(* Files that do not load, checked under SpecIndex *)

\* the files of the call that were skipped
Skipped(r) == r.relevant_files \ r.docs

\* C27: an index operation does not raise over a file it cannot read or
\* decode: the file is skipped, every file of the call that does load has
\* its chunk in the collection afterwards, and the operation gives up
\* (False, nothing persisted) only when no file of the call loaded.
C27_UnreadableFileIsSkipped ==
    (ret.op \in {"index_codebase", "index_wiki"}) =>
        /\ ret.outcome = "returned"
        /\ ret.docs \subseteq ret.relevant_files
        /\ (ret.inner = "False") <=> (ret.docs = {})
        /\ (ret.docs = {}) => ~ret.wrote
        /\ \A p \in ret.docs :
               \E ch \in collections[ret.persist_directory] :
                   ch.source = p /\ ch.gen = "cur"

\* index_codebase skipped one of its two files and persisted the other
C27_Witness ==
    /\ ret.op = "index_codebase"
    /\ Cardinality(ret.relevant_files) = 2
    /\ Cardinality(Skipped(ret)) = 1
    /\ ret.inner = "True"
    /\ \E ch \in collections[ret.persist_directory] :
           ch.source \in ret.docs /\ ch.gen = "cur"

-----------------------------------------------------------------------------
(* Plans with parent cycles, checked under SpecWalk *)

\* the page files in the wiki directory of the repository
PageFilesOnDisk(f) ==
    {q \in DOMAIN f : Under(q, OutputPath(state.repo_name)) /\ f[q].kind = "md"}

\* s has no element twice
NoRepeats(s) == \A i, j \in 1..Len(s) : s[i] = s[j] => i = j

\* C28: for a plan whose file values are unique, whatever its parent_file
\* links, the structure reconstruct_hierarchy builds is a finite forest
\* below the top-level list (no Page below it is its own descendant, none
\* is met twice), so save_plan serializes it without running away, every
\* step of the walk writes a file that was not there and leaves fewer
\* pages to do, and when the walk is over the files written are exactly
\* those of the reachable pages.
C28_UniqueFilesWalkTerminates ==
    [][ UniqueFiles(state.flat_wiki_structure.pages) =>
          LET nested == state.nested_wiki_structure
              dir == OutputPath(state.repo_name)
          IN  /\ (pc = "reconstruct_hierarchy")
                     => LET built == state'.nested_wiki_structure
                        IN  /\ ~CyclicFromTop(built)
                            /\ NoRepeats(PreOrder(built.heap, built.pages))
                            /\ SeqToSet(PreOrder(built.heap, built.pages))
                                   = Reachable(built)
              /\ (pc = "save_plan" /\ pc' = "failed")
                     => ret' # Raised("RecursionError")
              /\ (pc = "save_plan" /\ pc' = "generate_pages")
                     => fs'[PathJoin(dir, "structure.json")] = Manifest(nested)
              /\ PageWritten
                     => /\ Cardinality(PageFilesOnDisk(fs') \ PageFilesOnDisk(fs)) = 1
                        /\ Len(RemainingOf(nested.heap, stack'))
                               < Len(RemainingOf(nested.heap, stack))
              /\ (pc = "process_level" /\ pc' = "index_wiki")
                     => PageFilesOnDisk(fs)
                            = {PathJoin(dir, nested.heap[f].file) : f \in Reachable(nested)}
      ]_vars

\* the walk is over for a plan of a top-level page and two pages that name
\* each other as parent: one file was written
C28_Witness ==
    /\ pc = "index_wiki"
    /\ UniqueFiles(state.flat_wiki_structure.pages)
    /\ Len(state.flat_wiki_structure.pages) = 3
    /\ \E i, j \in 1..3 :
           /\ i # j
           /\ state.flat_wiki_structure.pages[i].parent_file
                  = state.flat_wiki_structure.pages[j].file
           /\ state.flat_wiki_structure.pages[j].parent_file
                  = state.flat_wiki_structure.pages[i].file
    /\ Cardinality(Reachable(state.nested_wiki_structure)) = 1
    /\ Cardinality(PageFilesOnDisk(fs)) = 1

\* the FlatPages (by index) from which following parent_file never ends:
\* the largest set of pages each naming as parent the file of a page of
\* the set
RECURSIVE CycleBoundFrom(_, _)
CycleBoundFrom(pages, X) ==
    LET Y == {i \in X : /\ Truthy(pages[i].parent_file)
                        /\ \E j \in X : pages[j].file = pages[i].parent_file}
    IN  IF Y = X THEN X ELSE CycleBoundFrom(pages, Y)

CycleBound(pages) == CycleBoundFrom(pages, 1..Len(pages))

\* the files a serialized structure names, at any depth
RECURSIVE FilesInDicts(_)
FilesInDicts(dicts) ==
    UNION { {dicts[i].file} \cup FilesInDicts(dicts[i].pages) : i \in 1..Len(dicts) }

\* C29: a planned page whose chain of parent_file links runs into a cycle
\* (a page naming its own file as parent included) is not in the top-level
\* list and not reachable from it once the hierarchy is built; the manifest
\* does not name it, no file is written for it, and the run does not raise
\* over it.
C29_CyclicPagesSilentlyDropped ==
    (pc # "reconstruct_hierarchy") =>
        \A i \in CycleBound(state.flat_wiki_structure.pages) :
            LET file == state.flat_wiki_structure.pages[i].file
                nested == state.nested_wiki_structure
                dir == OutputPath(state.repo_name)
            IN  /\ file \notin SeqToSet(nested.pages)
                /\ file \notin Reachable(nested)
                /\ ret # Raised("RecursionError")
                /\ ~Exists(fs, PathJoin(dir, file))
                /\ Exists(fs, PathJoin(dir, "structure.json"))
                       => file \notin FilesInDicts(fs[PathJoin(dir, "structure.json")].data.pages)

-----------------------------------------------------------------------------
(* The old copy of a repository cloned again, checked under SpecIngest *)

\* what lies at p or below it
TreeAt(f, p) == {q \in DOMAIN f : q = p \/ Under(q, p)}

\* C30: clone_repo removes what is at the destination before it clones and
\* does not put it back: after a clone that failed (None returned) nothing
\* is at the destination, whatever copy was there before, and after one
\* that succeeded only the files cloned are; nothing else is touched.
C30_FailedCloneLosesOldCopy ==
    [][ (ret'.op = "clone_repo") =>
          LET clone_destination == PathJoin(BaseClonePath, ret'.name)
          IN  /\ ret'.removed = Exists(fs, clone_destination)
              /\ (ret'.error # None)
                     => (/\ ret'.value = None
                         /\ TreeAt(fs', clone_destination) = {})
              /\ (ret'.error = None)
                     => {q \in TreeAt(fs', clone_destination) : fs'[q].kind # "dir"}
                            = {clone_destination \o r : r \in ret'.entries}
              /\ \A q \in DOMAIN fs \ TreeAt(fs, clone_destination) :
                     q \in DOMAIN fs' /\ fs'[q] = fs[q]
      ]_vars

\* a clone failed where a copy of the repository was: the copy is gone
C30_Witness ==
    /\ ret.op = "clone_repo"
    /\ ret.error = "GitCommandError"
    /\ ret.value = None
    /\ ret.removed
    /\ TreeAt(fs, PathJoin(BaseClonePath, ret.name)) = {}

====
